---------------------------- MODULE Spec2Model ----------------------------
(***************************************************************************)
(* Verification model of the ASIC-signature repository.                    *)
(*                                                                         *)
(*   Part 1  drivers/s9_dual_bridge.py   DualBridge: the dispatcher loop,  *)
(*           the stratum (pool) thread and the API thread, with the device *)
(*           and the API clients as environment.                           *)
(*   Part 2  silicon_rs_watermark.py     GF(256), the Reed-Solomon encoder *)
(*           and syndrome check, embed_watermark and extract_watermark.    *)
(*   Part 3  verify_silicon_art.py       verify_art and its byte-order     *)
(*           search.                                                       *)
(*   Part 4  drivers/asic_interface.py   SoftwareHasher and LV06Interface: *)
(*           hash and submit_hash_job.                                     *)
(*                                                                         *)
(* Each part has its own specification; the variables of the other parts   *)
(* stay at their initial values.                                           *)
(***************************************************************************)
EXTENDS Integers, Sequences, FiniteSets, TLC

VARIABLES
    \* ---- DualBridge fields (s9_dual_bridge.py:30-41)
    s9_conn,         \* None or the active device connection
    job_counter,
    request_queue,   \* queue.Queue of <<client, data_hex>>
    pending_jobs,    \* dict job_id -> client socket
    lock,            \* threading.Lock: "free" or the holder
    \* ---- thread positions and locals
    disp,            \* dispatcher loop of start()
    strat,           \* run_stratum_server thread
    api,             \* run_api_server thread
    \* ---- sockets and listen queues
    api_backlog,     \* API clients connected, not yet accepted
    pool_backlog,    \* device connections made, not yet accepted
    cl,              \* per API client: its end, its request, what it received
    dev,             \* per device connection: its end, both byte streams
    \* ---- history
    assigned,        \* client -> job_id given to its request (<<>>: none)
    dequeued,        \* clients whose request the dispatcher has taken
    submits,         \* submit params the bridge has read, in order
    dev_msgs,        \* lines written by the device so far
    drops,           \* connections dropped by a peer so far
    enq,             \* clients whose request was queued, in queueing order
    notified,        \* the s9_conn.send calls of send_mining_notify, in order
    popped,          \* job ids whose entry complete_job has removed
    \* ---- watermark codec (Part 2)
    wm_pc, wm_flat, wm_orig, wm_sig, wm_out, wm_flips, wm_forged,
    \* ---- verifier (Part 3)
    vf_pc, vf_in, vf_idx, vf_hashed, vf_seed,
    \* ---- calls of the library functions (rs_encode, swab32, hash, ...)
    fn_pc,           \* how far the call sequence has got
    fn_in,           \* the arguments
    fn_out           \* the values returned so far

bridgeVars == <<s9_conn, job_counter, request_queue, pending_jobs, lock,
              disp, strat, api, api_backlog, pool_backlog, cl, dev,
              assigned, dequeued, submits, dev_msgs, drops, enq, notified,
              popped>>

wmVars == <<wm_pc, wm_flat, wm_orig, wm_sig, wm_out, wm_flips, wm_forged>>

vfVars == <<vf_pc, vf_in, vf_idx, vf_hashed, vf_seed>>

fnVars == <<fn_pc, fn_in, fn_out>>

vars == <<s9_conn, job_counter, request_queue, pending_jobs, lock,
          disp, strat, api, api_backlog, pool_backlog, cl, dev,
          assigned, dequeued, submits, dev_msgs, drops, enq, notified,
          popped, wm_pc, wm_flat, wm_orig, wm_sig, wm_out, wm_flips,
          wm_forged, vf_pc, vf_in, vf_idx, vf_hashed, vf_seed, fn_pc,
          fn_in, fn_out>>

\* Python None, where a socket or a connection is expected
None == 0

\* no library function is being called
FNIdle == fn_pc = "off" /\ fn_in = <<>> /\ fn_out = <<>>

(***************************************************************************)
(*                                                                         *)
(*                 Part 1: drivers/s9_dual_bridge.py                       *)
(*                                                                         *)
(***************************************************************************)

\* Bounds of the bridge model
MaxClients == 2     \* API client connections made during a run
MaxConns == 2       \* device (pool-side) connections made during a run
MaxDevMsgs == 2     \* JSON-RPC lines the device writes during a run
MaxDrops == 1       \* connections dropped by a peer (client or device)

Clients == 1..MaxClients
Conns == 1..MaxConns

HexDigits == <<"0", "1", "2", "3", "4", "5", "6", "7",
               "8", "9", "a", "b", "c", "d", "e", "f">>

\* f"{n:x}" as a sequence of characters
RECURSIVE Hex(_)
Hex(n) == IF n < 16 THEN <<HexDigits[n + 1]>>
          ELSE Hex(n \div 16) \o <<HexDigits[(n % 16) + 1]>>

PREVHASH_LEN == 64
DIFFICULTY == 4

\* data_hex[:64] without the padding
PrevHashUnpadded(data_hex) ==
    [i \in 1..(IF Len(data_hex) < PREVHASH_LEN THEN Len(data_hex)
               ELSE PREVHASH_LEN) |-> data_hex[i]]

\* data_hex[:64].ljust(64, '0')
PrevHash(data_hex) ==
    [i \in 1..PREVHASH_LEN |-> IF i <= Len(data_hex) THEN data_hex[i] ELSE "0"]

ErrorReply == [error |-> "S9 not connected"]

\* the result object of complete_job
SuccessReply(job_id, nonce, params) ==
    [job_id |-> job_id, nonce |-> nonce, params |-> params, status |-> "success"]

\* the mining.notify message of send_mining_notify (ntime is the wall clock)
NotifyMsg(job_id, prev_hash) ==
    [method |-> "mining.notify", job_id |-> job_id, prevhash |-> prev_hash,
     merkle_branch |-> <<>>, version |-> "20000000", nbits |-> "1d00ffff",
     clean_jobs |-> TRUE]

\* {"id": msg_id, "result": True, "error": None}
AckMsg(msg_id) == [method |-> "result", id |-> msg_id, result |-> "true"]
SubscribeResp(msg_id) ==
    [method |-> "result", id |-> msg_id, result |-> "subscription"]
SetDifficulty == [method |-> "mining.set_difficulty", params |-> DIFFICULTY]

EmptyDict == [j \in {} |-> None]

\* a complete_job that answers a pending job of its own choice whatever the
\* submit names
PopClientAny(pj, job_id) ==
    IF DOMAIN pj = {} THEN None ELSE pj[CHOOSE j \in DOMAIN pj : TRUE]

\* a complete_job that falls back to some pending job for an unknown job_id
PopClientFallback(pj, job_id) ==
    IF job_id \in DOMAIN pj THEN pj[job_id]
    ELSE IF DOMAIN pj = {} THEN None
    ELSE pj[CHOOSE j \in DOMAIN pj : TRUE]

\* pending_jobs.pop(job_id, None): the value returned ...
PopClient(pj, job_id) == IF job_id \in DOMAIN pj THEN pj[job_id] ELSE None

\* a pop that empties the table
PopRestAll(pj, job_id) == EmptyDict

\* ... and the dictionary left
PopRest(pj, job_id) == [j \in (DOMAIN pj) \ {job_id} |-> pj[j]]

\* a dispatcher that registers nothing
StoreJobSkipped(pj, job_id, client) == pj

\* pending_jobs[job_id] = client
StoreJob(pj, job_id, client) ==
    [j \in (DOMAIN pj) \cup {job_id} |-> IF j = job_id THEN client ELSE pj[j]]

(***************************************************************************)
(* Inputs of the bridge.                                                   *)
(***************************************************************************)
ShortData == <<"a", "b">>
LongData == [i \in 1..(PREVHASH_LEN + 2) |-> "c"]

\* what an API client writes on its connection
ReqInputs == { [json |-> TRUE, data |-> ShortData],
               [json |-> TRUE, data |-> LongData],
               [json |-> TRUE, data |-> <<>>],      \* no "data", or ""
               [json |-> FALSE, data |-> <<>>] }    \* not JSON

\* the nonce of the device's i-th line: every submit carries its own
NonceOf(i) == <<"f", "1", "6", "8", "2", "3", "b">> \o Hex(i)

\* job ids a device may name: the issued ones and one never issued
JobIdInputs == { Hex(i) : i \in 1..MaxClients } \cup { <<"0", "1">> }

\* ["worker", job_id, extranonce2, ntime, nonce]
SubmitParams(job_id, nonce) == <<"worker", job_id, "00000000", "6964c85e", nonce>>

\* a JSON-RPC line of the device; the device numbers its lines
Line(msg_id, method, params) ==
    [json |-> TRUE, id |-> msg_id, method |-> method, params |-> params]

\* the lines the device may write as its i-th line
DevLineInputs(i) ==
    { Line(i, "mining.subscribe", <<>>), Line(i, "mining.authorize", <<>>),
      Line(i, "mining.ping", <<>>),
      [json |-> FALSE, id |-> i, method |-> "", params |-> <<>>] }
    \cup { Line(i, "mining.submit", SubmitParams(j, NonceOf(i))) :
               j \in JobIdInputs }

(***************************************************************************)
(* socket.send as the bridge sees it: on a connection whose peer is gone   *)
(* the call either raises, or returns with the bytes never read ("lost").  *)
(***************************************************************************)
SendOutcomes(peer_gone) == IF peer_gone THEN {"raise", "lost"} ELSE {"ok"}

DispIdle == [pc |-> "get", client |-> None, data |-> <<>>, job_id |-> <<>>]
StratIdle == [pc |-> "accept", conn |-> None, msg_id |-> None, job_id |-> <<>>,
              nonce |-> <<>>, params |-> <<>>, client |-> None]
ApiIdle == [pc |-> "accept", client |-> None]

BridgeInit ==
    /\ s9_conn = None
    /\ job_counter = 0
    /\ request_queue = <<>>
    /\ pending_jobs = EmptyDict
    /\ lock = "free"
    /\ disp = DispIdle
    /\ strat = StratIdle
    /\ api = ApiIdle
    /\ api_backlog = <<>>
    /\ pool_backlog = <<>>
    /\ cl = [c \in Clients |-> [st |-> "idle", req |-> <<>>, rx |-> <<>>,
                                closed |-> FALSE]]
    /\ dev = [k \in Conns |-> [st |-> "idle", tx |-> <<>>, rx |-> <<>>]]
    /\ assigned = [c \in Clients |-> <<>>]
    /\ dequeued = {}
    /\ submits = <<>>
    /\ dev_msgs = 0
    /\ drops = 0
    /\ enq = <<>>
    /\ notified = <<>>
    /\ popped = {}

(***************************************************************************)
(* Environment: API clients.  A client connects, writes one request and    *)
(* waits; it may give up (timeout) and close its end while it waits.       *)
(* Connections are numbered in the order they are made.  Bytes written, or *)
(* a close made, before the accept are seen after it just the same, so     *)
(* both are placed after the accept.                                       *)
(***************************************************************************)
ClientConnect(c) ==
    /\ cl[c].st = "idle"
    /\ \A b \in 1..(c - 1) : cl[b].st /= "idle"
    /\ cl' = [cl EXCEPT ![c].st = "conn"]
    /\ api_backlog' = Append(api_backlog, c)
    /\ UNCHANGED <<s9_conn, job_counter, request_queue, pending_jobs, lock,
                   disp, strat, api, pool_backlog, dev, assigned, dequeued,
                   submits, dev_msgs, drops, enq, notified, popped, wmVars,
                   vfVars, fnVars>>

ClientSend(c, r) ==
    /\ cl[c].st = "conn"
    /\ api.pc = "recv" /\ api.client = c
    /\ cl' = [cl EXCEPT ![c].st = "sent", ![c].req = <<r>>]
    /\ UNCHANGED <<s9_conn, job_counter, request_queue, pending_jobs, lock,
                   disp, strat, api, api_backlog, pool_backlog, dev,
                   assigned, dequeued, submits, dev_msgs, drops, enq,
                   notified, popped, wmVars, vfVars, fnVars>>

ClientClose(c) ==
    /\ cl[c].st \in {"conn", "sent"}
    /\ cl[c].rx = <<>> /\ ~cl[c].closed
    /\ \A i \in 1..Len(api_backlog) : api_backlog[i] /= c
    /\ drops < MaxDrops
    /\ drops' = drops + 1
    /\ cl' = [cl EXCEPT ![c].st = "gone"]
    /\ UNCHANGED <<s9_conn, job_counter, request_queue, pending_jobs, lock,
                   disp, strat, api, api_backlog, pool_backlog, dev,
                   assigned, dequeued, submits, dev_msgs, enq, notified,
                   popped, wmVars, vfVars, fnVars>>

(***************************************************************************)
(* Environment: the device.  It may connect, write any line at any time,   *)
(* and drop the connection.                                                *)
(***************************************************************************)
DeviceConnect(k) ==
    /\ dev[k].st = "idle"
    /\ \A b \in 1..(k - 1) : dev[b].st /= "idle"
    /\ dev' = [dev EXCEPT ![k].st = "conn"]
    /\ pool_backlog' = Append(pool_backlog, k)
    /\ UNCHANGED <<s9_conn, job_counter, request_queue, pending_jobs, lock,
                   disp, strat, api, api_backlog, cl, assigned, dequeued,
                   submits, dev_msgs, drops, enq, notified, popped, wmVars,
                   vfVars, fnVars>>

DeviceSend(k, m) ==
    /\ dev[k].st = "conn"
    /\ strat.conn = k
    /\ dev_msgs < MaxDevMsgs
    /\ dev' = [dev EXCEPT ![k].tx = Append(@, m)]
    /\ dev_msgs' = dev_msgs + 1
    /\ UNCHANGED <<s9_conn, job_counter, request_queue, pending_jobs, lock,
                   disp, strat, api, api_backlog, pool_backlog, cl,
                   assigned, dequeued, submits, drops, enq, notified,
                   popped, wmVars, vfVars, fnVars>>

DeviceClose(k) ==
    /\ dev[k].st = "conn"
    /\ strat.conn = k
    /\ drops < MaxDrops
    /\ drops' = drops + 1
    /\ dev' = [dev EXCEPT ![k].st = "gone"]
    /\ UNCHANGED <<s9_conn, job_counter, request_queue, pending_jobs, lock,
                   disp, strat, api, api_backlog, pool_backlog, cl,
                   assigned, dequeued, submits, dev_msgs, enq, notified,
                   popped, wmVars, vfVars, fnVars>>

(***************************************************************************)
(* Socket writes of the bridge.  rx is what reached a live peer.           *)
(***************************************************************************)
\* try: client.send(msg); client.close()  except: pass
ReplyAndClose(sock, msg, outcome) ==
    CASE outcome = "ok" -> [sock EXCEPT !.rx = Append(@, msg), !.closed = TRUE]
      [] outcome = "lost" -> [sock EXCEPT !.closed = TRUE]
      [] OTHER -> sock

\* conn.send(...) of each message of msgs in turn, none raising
DevWrite(d, k, msgs) ==
    IF d[k].st = "gone" THEN d ELSE [d EXCEPT ![k].rx = @ \o msgs]

(***************************************************************************)
(* API thread: run_api_server.  One thread accepts a connection, reads its *)
(* request and queues it before it accepts the next one.                   *)
(***************************************************************************)
ApiAccept ==
    /\ api.pc = "accept"
    /\ api_backlog /= <<>>
    /\ api' = [pc |-> "recv", client |-> Head(api_backlog)]
    /\ api_backlog' = Tail(api_backlog)
    /\ UNCHANGED <<s9_conn, job_counter, request_queue, pending_jobs, lock,
                   disp, strat, pool_backlog, cl, dev, assigned, dequeued,
                   submits, dev_msgs, drops, enq, notified, popped, wmVars,
                   vfVars, fnVars>>

\* a queue that hands out the newest request first
QueuePutFront(q, item) == <<item>> \o q

\* request_queue.put(item): queue.Queue is first in, first out
QueuePut(q, item) == Append(q, item)

\* client.recv(4096) and what follows it
ApiRecv ==
    /\ api.pc = "recv"
    /\ LET c == api.client
           got == cl[c].req /= <<>>
           r == IF got THEN cl[c].req[1] ELSE [json |-> FALSE, data |-> <<>>]
       IN  /\ got \/ cl[c].st = "gone"
           /\ IF ~got
              THEN \* recv returned b"": client.close()
                   /\ cl' = [cl EXCEPT ![c].closed = TRUE]
                   /\ UNCHANGED request_queue
              ELSE IF ~r.json
              THEN \* json.loads raises: caught by the loop, socket dropped
                   /\ cl' = [cl EXCEPT ![c].req = <<>>]
                   /\ UNCHANGED request_queue
              ELSE IF r.data = <<>>
              THEN \* data_hex missing or empty: client.close()
                   /\ cl' = [cl EXCEPT ![c].req = <<>>, ![c].closed = TRUE]
                   /\ UNCHANGED request_queue
              ELSE /\ request_queue' = QueuePut(request_queue, <<c, r.data>>)
                   /\ cl' = [cl EXCEPT ![c].req = <<>>]
    /\ enq' = IF request_queue' = request_queue THEN enq
              ELSE Append(enq, api.client)
    /\ api' = ApiIdle
    /\ UNCHANGED <<s9_conn, job_counter, pending_jobs, lock, disp, strat,
                   api_backlog, pool_backlog, dev, assigned, dequeued,
                   submits, dev_msgs, drops, notified, popped, wmVars,
                   vfVars, fnVars>>

(***************************************************************************)
(* Dispatcher: the loop of DualBridge.start.                               *)
(***************************************************************************)
\* a session check that always passes
DeviceConnectedAlways(conn) == TRUE

\* `if not self.s9_conn` is false
DeviceConnected(conn) == conn /= None

\* a counter that is not advanced
JobCounterStuck(n) == n

\* self.job_counter += 1
NextJobCounter(n) == n + 1

\* request_queue.get, the session check, and either the error reply or the
\* allocation of the job id
DispDequeue ==
    /\ disp.pc = "get"
    /\ request_queue /= <<>>
    /\ LET c == Head(request_queue)[1]
           d == Head(request_queue)[2]
       IN  /\ request_queue' = Tail(request_queue)
           /\ dequeued' = dequeued \cup {c}
           /\ IF ~DeviceConnected(s9_conn)
              THEN /\ \E o \in SendOutcomes(cl[c].st = "gone") :
                         cl' = [cl EXCEPT ![c] = ReplyAndClose(@, ErrorReply, o)]
                   /\ UNCHANGED <<job_counter, disp>>
              ELSE /\ job_counter' = NextJobCounter(job_counter)
                   /\ disp' = [pc |-> "lock", client |-> c, data |-> d,
                               job_id |-> Hex(job_counter')]
                   /\ UNCHANGED cl
    /\ UNCHANGED <<s9_conn, pending_jobs, lock, strat, api, api_backlog,
                   pool_backlog, dev, assigned, submits, dev_msgs, drops,
                   enq, notified, popped, wmVars, vfVars, fnVars>>

\* a with block that does not give the lock back
ReleaseSkipped(holder) == holder

\* leaving `with self.lock:` releases the lock
Release(holder) == "free"

\* with self.lock:
DispLock ==
    /\ disp.pc = "lock"
    /\ lock = "free"
    /\ lock' = "dispatcher"
    /\ disp' = [disp EXCEPT !.pc = "store"]
    /\ UNCHANGED <<s9_conn, job_counter, request_queue, pending_jobs,
                   strat, api, api_backlog, pool_backlog, cl, dev,
                   assigned, dequeued, submits, dev_msgs, drops, enq,
                   notified, popped, wmVars, vfVars, fnVars>>

\*     self.pending_jobs[job_id] = client      (and the lock is released)
DispStore ==
    /\ disp.pc = "store"
    /\ pending_jobs' = StoreJob(pending_jobs, disp.job_id, disp.client)
    /\ lock' = Release("dispatcher")
    /\ assigned' = [assigned EXCEPT ![disp.client] = disp.job_id]
    /\ disp' = [disp EXCEPT !.pc = "notify"]
    /\ UNCHANGED <<s9_conn, job_counter, request_queue, strat, api,
                   api_backlog, pool_backlog, cl, dev, dequeued, submits,
                   dev_msgs, drops, enq, notified, popped, wmVars, vfVars,
                   fnVars>>

\* send_mining_notify(job_id, prev_hash): self.s9_conn is read again here; a
\* None session or a failing send is caught and only printed
DispNotify ==
    /\ disp.pc = "notify"
    /\ LET msg == NotifyMsg(disp.job_id, PrevHash(disp.data)) IN
       IF s9_conn = None
       THEN UNCHANGED <<dev, notified>>
       ELSE /\ dev' = DevWrite(dev, s9_conn, <<msg>>)
            /\ notified' = Append(notified, [conn |-> s9_conn, msg |-> msg])
    /\ disp' = DispIdle
    /\ UNCHANGED <<s9_conn, job_counter, request_queue, pending_jobs, lock,
                   strat, api, api_backlog, pool_backlog, cl, assigned,
                   dequeued, submits, dev_msgs, drops, enq, popped, wmVars,
                   vfVars, fnVars>>

(***************************************************************************)
(* Stratum thread: run_stratum_server, handle_stratum_message and          *)
(* complete_job.  One thread serves one device connection at a time.       *)
(***************************************************************************)
StratumAccept ==
    /\ strat.pc = "accept"
    /\ pool_backlog /= <<>>
    /\ s9_conn' = Head(pool_backlog)
    /\ strat' = [StratIdle EXCEPT !.pc = "recv", !.conn = Head(pool_backlog)]
    /\ pool_backlog' = Tail(pool_backlog)
    /\ UNCHANGED <<job_counter, request_queue, pending_jobs, lock, disp,
                   api, api_backlog, cl, dev, assigned, dequeued, submits,
                   dev_msgs, drops, enq, notified, popped, wmVars, vfVars,
                   fnVars>>

\* a receive loop left without clearing the session
TeardownKeepsSession ==
    /\ s9_conn' = s9_conn
    /\ strat' = StratIdle

\* leaving the receive loop: self.s9_conn = None
Teardown ==
    /\ s9_conn' = None
    /\ strat' = StratIdle

\* a handle_stratum_message that completes a submit without acknowledging it
RepliesToUnacked(line) ==
    CASE line.method = "mining.subscribe" -> <<SubscribeResp(line.id)>>
      [] line.method = "mining.authorize" -> <<AckMsg(line.id), SetDifficulty>>
      [] OTHER -> <<>>

\* what handle_stratum_message writes to the device for a line
RepliesTo(line) ==
    CASE line.method = "mining.subscribe" -> <<SubscribeResp(line.id)>>
      [] line.method = "mining.authorize" -> <<AckMsg(line.id), SetDifficulty>>
      [] line.method = "mining.submit" -> <<AckMsg(line.id)>>
      [] OTHER -> <<>>

\* conn.recv, then handle_stratum_message up to the ACK of a submit
StratumRecv ==
    /\ strat.pc = "recv"
    /\ LET k == strat.conn IN
       IF dev[k].tx = <<>>
       THEN \* nothing to read: blocked, or EOF when the device is gone
            /\ dev[k].st = "gone"
            /\ Teardown
            /\ UNCHANGED <<dev, submits>>
       ELSE LET line == Head(dev[k].tx)
                rest == [dev EXCEPT ![k].tx = Tail(@)]
            IN  IF ~line.json
                THEN \* json.loads raises
                     /\ Teardown
                     /\ dev' = rest
                     /\ UNCHANGED submits
                ELSE \E o \in (IF RepliesTo(line) = <<>> THEN {"ok"}
                               ELSE SendOutcomes(dev[k].st = "gone")) :
                     IF o = "raise"
                     THEN /\ Teardown
                          /\ dev' = rest
                          /\ UNCHANGED submits
                     ELSE /\ dev' = DevWrite(rest, k, RepliesTo(line))
                          /\ UNCHANGED s9_conn
                          /\ IF line.method = "mining.submit"
                             THEN /\ strat' = [strat EXCEPT
                                                 !.pc = "lock",
                                                 !.msg_id = line.id,
                                                 !.job_id = line.params[2],
                                                 !.nonce = line.params[5],
                                                 !.params = line.params]
                                  /\ submits' = Append(submits, line.params)
                             ELSE UNCHANGED <<strat, submits>>
    /\ UNCHANGED <<job_counter, request_queue, pending_jobs, lock, disp,
                   api, api_backlog, pool_backlog, cl, assigned, dequeued,
                   dev_msgs, drops, enq, notified, popped, wmVars, vfVars,
                   fnVars>>

\* complete_job: with self.lock:
StratumLock ==
    /\ strat.pc = "lock"
    /\ lock = "free"
    /\ lock' = "stratum"
    /\ strat' = [strat EXCEPT !.pc = "pop"]
    /\ UNCHANGED <<s9_conn, job_counter, request_queue, pending_jobs, disp,
                   api, api_backlog, pool_backlog, cl, dev, assigned,
                   dequeued, submits, dev_msgs, drops, enq, notified,
                   popped, wmVars, vfVars, fnVars>>

\*     client = self.pending_jobs.pop(job_id, None)   (lock released)
StratumPop ==
    /\ strat.pc = "pop"
    /\ pending_jobs' = PopRest(pending_jobs, strat.job_id)
    /\ popped' = popped \cup (DOMAIN pending_jobs \cap {strat.job_id})
    /\ lock' = Release("stratum")
    /\ LET client == PopClient(pending_jobs, strat.job_id) IN
       strat' = IF client = None
                THEN [StratIdle EXCEPT !.pc = "recv", !.conn = strat.conn]
                ELSE [strat EXCEPT !.pc = "reply", !.client = client]
    /\ UNCHANGED <<s9_conn, job_counter, request_queue, disp, api,
                   api_backlog, pool_backlog, cl, dev, assigned, dequeued,
                   submits, dev_msgs, drops, enq, notified, wmVars, vfVars,
                   fnVars>>

\* if client: client.send(result); client.close()
StratumReply ==
    /\ strat.pc = "reply"
    /\ \E o \in SendOutcomes(cl[strat.client].st = "gone") :
          cl' = [cl EXCEPT ![strat.client] =
                    ReplyAndClose(@, SuccessReply(strat.job_id, strat.nonce,
                                                  strat.params), o)]
    /\ strat' = [StratIdle EXCEPT !.pc = "recv", !.conn = strat.conn]
    /\ UNCHANGED <<s9_conn, job_counter, request_queue, pending_jobs, lock,
                   disp, api, api_backlog, pool_backlog, dev, assigned,
                   dequeued, submits, dev_msgs, drops, enq, notified,
                   popped, wmVars, vfVars, fnVars>>

(***************************************************************************)
(* Properties of the bridge.                                               *)
(***************************************************************************)
IsSuccess(r) == "status" \in DOMAIN r
IsNotify(m) == m.method = "mining.notify"

\* the notify of job j reached a device
NotifyDelivered(j) ==
    \E k \in Conns : \E i \in 1..Len(dev[k].rx) :
        IsNotify(dev[k].rx[i]) /\ dev[k].rx[i].job_id = j

\* C1: a success reply on a requester's connection carries the job id that
\* was allocated to that requester and the nonce and parameters of a submit
\* the device made for that job id, in whatever order the device submits;
\* no two requesters share a job id.
C1_Correlation ==
    /\ \A c \in Clients : \A i \in 1..Len(cl[c].rx) :
          LET r == cl[c].rx[i] IN
          IsSuccess(r) =>
              /\ r.job_id = assigned[c]
              /\ r.params[2] = r.job_id
              /\ r.nonce = r.params[5]
              /\ \E s \in 1..Len(submits) : submits[s] = r.params
    /\ \A a, b \in Clients :
          (a /= b /\ assigned[a] /= <<>>) => assigned[a] /= assigned[b]

\* C1 witness: two requests were dispatched before any submit, the device
\* submitted the second job first, and both requesters hold their reply.
C1_Witness ==
    /\ assigned[1] = Hex(1) /\ assigned[2] = Hex(2)
    /\ Len(submits) = 2
    /\ submits[1][2] = assigned[2] /\ submits[2][2] = assigned[1]
    /\ \A c \in Clients : Len(cl[c].rx) = 1 /\ IsSuccess(cl[c].rx[1])
    /\ \E k \in Conns :
          /\ Len(dev[k].rx) = 4
          /\ IsNotify(dev[k].rx[1]) /\ IsNotify(dev[k].rx[2])

\* a step of the dispatcher that takes the request of c off the queue while
\* no device session is active
DequeueNoDevice(c) ==
    /\ request_queue /= <<>>
    /\ request_queue' = Tail(request_queue)
    /\ Head(request_queue)[1] = c
    /\ s9_conn = None

\* the step allocates no job id, registers nothing and notifies nobody
NoJobCreated ==
    /\ job_counter' = job_counter
    /\ pending_jobs' = pending_jobs
    /\ dev' = dev
    /\ disp' = disp

\* C7 (unconditional form): a request dequeued while no device session is active has
\* the error reply sent to the requester and the requester's connection
\* closed, and the step leaves the job counter and the pending table
\* unchanged and sends no notify.
C7_FailFastAlwaysCloses ==
    [][\A c \in Clients : DequeueNoDevice(c) =>
          /\ cl'[c].closed
          /\ cl[c].st /= "gone" => cl'[c].rx = Append(cl[c].rx, ErrorReply)
          /\ NoJobCreated]_vars

\* C7: the step always leaves the job counter and the pending table
\* unchanged and sends no notify; a requester that has not dropped its
\* connection receives the error reply and has the connection closed; one
\* that has dropped it receives nothing, and its socket is closed only if the
\* send did not raise.
C7_FailFast ==
    [][\A c \in Clients : DequeueNoDevice(c) =>
          /\ NoJobCreated
          /\ cl[c].st /= "gone" =>
                (cl'[c].rx = Append(cl[c].rx, ErrorReply) /\ cl'[c].closed)
          /\ cl[c].st = "gone" => cl'[c].rx = cl[c].rx]_vars

\* C7 witness: a request was dequeued with no device session; its requester
\* holds the error reply on a closed connection and no job exists.
C7_Witness ==
    \E c \in dequeued :
        /\ cl[c].rx = <<ErrorReply>> /\ cl[c].closed
        /\ job_counter = 0 /\ pending_jobs = EmptyDict
        /\ \A k \in Conns : dev[k].rx = <<>>

\* C8: every dequeued request whose notify was not delivered to a device,
\* once the dispatcher is done with it, has the error reply on the
\* requester's connection and no entry in the pending table.
C8_ErrorsReachCaller ==
    \A c \in dequeued :
        ( /\ disp.client /= c
          /\ cl[c].st /= "gone"
          /\ assigned[c] /= <<>> => ~NotifyDelivered(assigned[c]) )
        => /\ cl[c].rx = <<ErrorReply>>
           /\ assigned[c] /= <<>> => assigned[c] \notin DOMAIN pending_jobs

\* a submit is being completed whose job id has no pending entry
UnknownSubmit ==
    /\ strat.pc = "pop"
    /\ strat.job_id \notin DOMAIN pending_jobs
    /\ strat' /= strat

\* C10: a submit whose job id has no entry in the pending table sends
\* nothing to any requester and leaves the table unchanged, and every
\* requester receives at most one reply over the whole run.
C10_LateSubmitDropped ==
    /\ [](\A c \in Clients : Len(cl[c].rx) <= 1)
    /\ [][UnknownSubmit =>
            /\ pending_jobs' = pending_jobs
            /\ strat'.pc = "recv"
            /\ cl' = cl]_vars

\* C10 witness: the device submitted the job of the first request twice;
\* both submits were processed and the requester holds one reply.
C10_Witness ==
    /\ Len(submits) = 2
    /\ submits[1][2] = assigned[1] /\ submits[2][2] = assigned[1]
    /\ strat.pc = "recv"
    /\ \A k \in Conns : dev[k].tx = <<>>
    /\ Len(cl[1].rx) = 1 /\ IsSuccess(cl[1].rx[1])
    /\ pending_jobs = EmptyDict

(***************************************************************************)
(* A well-behaved device: it connects once and stays connected, works on   *)
(* the job of the last notify it received (clean_jobs makes it abandon any *)
(* earlier one) and submits one proof for that job.                        *)
(***************************************************************************)
\* the job the device is working on: that of the last notify it received
CurrentJob(k) ==
    LET n == { i \in 1..Len(dev[k].rx) : IsNotify(dev[k].rx[i]) }
    IN  IF n = {} THEN <<>>
        ELSE dev[k].rx[CHOOSE i \in n : \A j \in n : j <= i].job_id

LiveDeviceConnect == DeviceConnect(1)

LiveDeviceSubmit ==
    LET k == 1
        j == CurrentJob(k)
    IN  /\ dev[k].st = "conn"
        /\ strat.conn = k
        /\ j /= <<>>
        /\ \A s \in 1..Len(submits) : submits[s][2] /= j
        /\ \A i \in 1..Len(dev[k].tx) : dev[k].tx[i].params[2] /= j
        /\ dev' = [dev EXCEPT ![k].tx =
                       Append(@, Line(dev_msgs + 1, "mining.submit",
                                      SubmitParams(j, NonceOf(dev_msgs + 1))))]
        /\ dev_msgs' = dev_msgs + 1
        /\ UNCHANGED <<s9_conn, job_counter, request_queue, pending_jobs, lock,
                   disp, strat, api, api_backlog, pool_backlog, cl,
                   assigned, dequeued, submits, drops, enq, notified,
                   popped, wmVars, vfVars, fnVars>>

Enqueued(c) == \E i \in 1..Len(request_queue) : request_queue[i][1] = c
Answered(c) == cl[c].rx /= <<>> /\ cl[c].closed

\* C9: with fair scheduling of the bridge threads and a device that works
\* on the job of the latest notify and submits a proof for it, every
\* enqueued request is eventually answered and its connection closed.
C9_EveryRequestAnswered ==
    \A c \in Clients : Enqueued(c) ~> Answered(c)


(***************************************************************************)
(* Ordering inside the handling of a submit.                               *)
(***************************************************************************)
\* the stratum thread is inside complete_job
InCompleteJob == strat.pc \in {"lock", "pop", "reply"}

\* the acknowledgement of the submit being handled has reached device k
AckReceived(k) ==
    \E i \in 1..Len(dev[k].rx) : dev[k].rx[i] = AckMsg(strat.msg_id)

\* a step removes a pending correlation or hands a success reply to a client
CompletionStep ==
    \/ \E j \in DOMAIN pending_jobs : j \notin DOMAIN pending_jobs'
    \/ \E c \in Clients :
          /\ Len(cl'[c].rx) > Len(cl[c].rx)
          /\ IsSuccess(cl'[c].rx[Len(cl'[c].rx)])

\* the step in which the stratum thread reads a submit and enters complete_job
SubmitReadStep == strat.pc = "recv" /\ strat'.pc = "lock"

\* C11: the acknowledgement of a submit is sent to the device before the
\* pending correlation is removed and before any reply goes to the API
\* requester, whether or not the submitted job id is pending: the step that
\* reads the submit writes the acknowledgement and touches neither the table
\* nor a client, complete_job runs only after it, and the table and the
\* clients' replies change only inside complete_job.
C11_AckBeforeCompletion ==
    /\ [](InCompleteJob =>
            /\ submits /= <<>> /\ submits[Len(submits)] = strat.params
            /\ dev[strat.conn].st = "conn" => AckReceived(strat.conn))
    /\ [][SubmitReadStep =>
            /\ pending_jobs' = pending_jobs /\ cl' = cl
            /\ dev[strat.conn].st = "conn" =>
                  dev'[strat.conn].rx =
                      Append(dev[strat.conn].rx, AckMsg(strat'.msg_id))]_vars
    /\ [][CompletionStep => strat.pc \in {"pop", "reply"}]_vars

\* C11 witness: a submit naming a job id that is not pending was read; the
\* device holds its acknowledgement and complete_job has not yet looked at
\* the table.
C11_Witness ==
    /\ strat.pc = "lock"
    /\ strat.job_id \notin DOMAIN pending_jobs
    /\ dev[strat.conn].st = "conn" /\ AckReceived(strat.conn)

(***************************************************************************)
(* Order of service.                                                       *)
(***************************************************************************)
\* int(job_id, 16)
JobNumber(job_id) == CHOOSE n \in 0..(MaxClients + 1) : Hex(n) = job_id

\* the position in the sequence of notify sends of the one for job j (0 if
\* there was none)
NotifyIndex(j) ==
    IF \E i \in 1..Len(notified) : notified[i].msg.job_id = j
    THEN CHOOSE i \in 1..Len(notified) : notified[i].msg.job_id = j
    ELSE 0

\* C12: requests are dispatched in the order they were queued: if a was
\* queued before b and b has been given a job id, then a was taken from
\* the queue before, and if a was given a job id it is the smaller one, and
\* if both were notified to a device a's notify was sent first.
C12_FifoService ==
    \A i, j \in 1..Len(enq) :
        LET a == enq[i]
            b == enq[j]
        IN  (i < j /\ assigned[b] /= <<>>) =>
               /\ a \in dequeued
               /\ assigned[a] /= <<>> =>
                     JobNumber(assigned[a]) < JobNumber(assigned[b])
               /\ (NotifyIndex(assigned[a]) > 0 /\ NotifyIndex(assigned[b]) > 0)
                     => NotifyIndex(assigned[a]) < NotifyIndex(assigned[b])

\* C12 witness: two requests were queued one after the other and both were
\* dispatched to a device, the first under job 1 and the second under job 2.
C12_Witness ==
    /\ Len(enq) = 2
    /\ assigned[enq[1]] = Hex(1) /\ assigned[enq[2]] = Hex(2)
    /\ Len(notified) = 2
    /\ notified[1].msg.job_id = Hex(1) /\ notified[2].msg.job_id = Hex(2)

(***************************************************************************)
(* Phases of a device connection, as the device can tell them from what it *)
(* has received: the subscription result, then the authorize result with   *)
(* the difficulty, then notifies.                                          *)
(***************************************************************************)
\* before its i-th received message, connection k was answered a subscribe
SubscribedBefore(k, i) ==
    \E j \in 1..(i - 1) : dev[k].rx[j].method = "result"
                          /\ dev[k].rx[j].result = "subscription"

\* before its i-th received message, connection k was answered an authorize
AuthorizedBefore(k, i) ==
    \E j \in 1..(i - 1) : dev[k].rx[j] = SetDifficulty

\* C13: a notify reaches a device connection only after that connection was
\* subscribed and authorized, and a submit completes a pending job only on
\* a connection that was subscribed and authorized.
C13_SessionPhases ==
    /\ \A k \in Conns : \A i \in 1..Len(dev[k].rx) :
          IsNotify(dev[k].rx[i]) =>
              SubscribedBefore(k, i) /\ AuthorizedBefore(k, i)
    /\ (strat.pc = "reply" /\ dev[strat.conn].st = "conn") =>
          LET n == Len(dev[strat.conn].rx) + 1
          IN  SubscribedBefore(strat.conn, n) /\ AuthorizedBefore(strat.conn, n)

(***************************************************************************)
(* Loss of the device connection and reconnection.                         *)
(***************************************************************************)
\* the stratum thread is in recv and what it will read is the end of the
\* stream or a line that is not JSON
EofOrMalformed ==
    /\ strat.pc = "recv"
    /\ IF dev[strat.conn].tx = <<>> THEN dev[strat.conn].st = "gone"
       ELSE ~Head(dev[strat.conn].tx).json

\* C14: losing the device connection is recoverable.  While the pool
\* listener waits in accept the session is none, and otherwise the session
\* is the connection being served; reading the end of the stream or a
\* malformed line, and every other way out of the receive loop, clears the
\* session and returns the listener to accept without touching the
\* dispatcher, the API thread, the queue or the table; a request dequeued
\* with no session gets the error reply; the listener's accept makes the
\* oldest waiting connection the session, and every notify goes to the
\* session of the moment.
C14_DisconnectRecoverable ==
    /\ []((strat.pc = "accept") <=> (s9_conn = None))
    /\ [](s9_conn /= None => s9_conn = strat.conn)
    /\ [][(EofOrMalformed /\ strat' /= strat) => strat'.pc = "accept"]_vars
    /\ [][(strat.pc /= "accept" /\ strat'.pc = "accept") =>
            /\ s9_conn' = None
            /\ disp' = disp /\ api' = api
            /\ request_queue' = request_queue
            /\ pending_jobs' = pending_jobs /\ lock' = lock]_vars
    /\ [][\A c \in Clients : (DequeueNoDevice(c) /\ cl[c].st /= "gone") =>
            cl'[c].rx = Append(cl[c].rx, ErrorReply)]_vars
    /\ [][(strat.pc = "accept" /\ strat'.pc /= "accept") =>
            /\ pool_backlog /= <<>>
            /\ s9_conn' = Head(pool_backlog)
            /\ strat'.pc = "recv"]_vars
    /\ [][notified' /= notified =>
            /\ s9_conn /= None
            /\ notified' = Append(notified,
                                  [conn |-> s9_conn,
                                   msg |-> notified'[Len(notified')].msg])]_vars

\* C14 witness: the first device connection was lost, a request dequeued
\* meanwhile was answered with the error, a second connection was accepted
\* as the session and a later request's notify reached it.
C14_Witness ==
    /\ s9_conn = 2 /\ dev[2].st = "conn"
    /\ \E c \in Clients : cl[c].rx = <<ErrorReply>>
    /\ \E i \in 1..Len(dev[2].rx) : IsNotify(dev[2].rx[i])

(***************************************************************************)
(* Lines with a method the bridge does not know.                           *)
(***************************************************************************)
KnownMethods == {"mining.subscribe", "mining.authorize", "mining.submit"}

\* the stratum thread reads a well-formed line whose method is not known
UnknownMethodStep ==
    /\ strat.pc = "recv"
    /\ dev[strat.conn].tx /= <<>>
    /\ Head(dev[strat.conn].tx).json
    /\ Head(dev[strat.conn].tx).method \notin KnownMethods
    /\ dev'[strat.conn].tx = Tail(dev[strat.conn].tx)

\* C15: a well-formed line with an unexpected method tears the device
\* connection down and clears the session, and leaves the dispatcher and
\* the API thread as they are.
C15_UnknownMethodTearsDown ==
    [][UnknownMethodStep =>
          /\ s9_conn' = None /\ strat'.pc = "accept"
          /\ disp' = disp /\ api' = api]_vars

(***************************************************************************)
(* A second device connecting while the first is being served.             *)
(***************************************************************************)
\* another device connects to the pool port and stays connected
SecondDeviceConnect == DeviceConnect(2)

BothConnected == dev[1].st = "conn" /\ dev[2].st = "conn"

\* C16: at most one connection is the session, and once a second device has
\* connected while the first is still connected, the second becomes the
\* session.
C16_SecondReplacesFirst ==
    /\ [](s9_conn \in {None} \cup Conns)
    /\ BothConnected ~> (s9_conn = 2)

(***************************************************************************)
(* The lock around the pending-job table.                                  *)
(***************************************************************************)
\* a step in which the bridge sends, receives or closes on a socket
SocketStep ==
    \/ \E c \in Clients : cl'[c].rx /= cl[c].rx \/ cl'[c].closed /= cl[c].closed
                          \/ Len(cl'[c].req) < Len(cl[c].req)
    \/ \E k \in Conns : dev'[k].rx /= dev[k].rx
                        \/ Len(dev'[k].tx) < Len(dev[k].tx)
    \/ notified' /= notified

\* a step taken by a thread while it holds the lock
StepUnderLock ==
    \/ lock = "dispatcher" /\ disp' /= disp
    \/ lock = "stratum" /\ strat' /= strat

\* C17: the pending-job table is read and changed only by the thread that
\* holds the lock, which gives it back in the same step; the dispatcher
\* holds the lock exactly while it stores and the stratum thread exactly
\* while it pops; a step taken under the lock does no socket send, receive
\* or close, so the lock is free again when the notify and the reply are
\* sent.
C17_LockDiscipline ==
    /\ []((lock = "dispatcher") <=> (disp.pc = "store"))
    /\ []((lock = "stratum") <=> (strat.pc = "pop"))
    /\ [](lock \in {"free", "dispatcher", "stratum"})
    /\ [][pending_jobs' /= pending_jobs =>
             StepUnderLock /\ lock' = "free"]_vars
    /\ [][StepUnderLock => ~SocketStep]_vars
    /\ [][SocketStep =>
             /\ disp' /= disp => lock /= "dispatcher"
             /\ strat' /= strat => lock /= "stratum"]_vars

\* C17 witness: the stratum thread holds the lock to pop a pending job while
\* the dispatcher, having stored and released, is about to send a notify.
C17_Witness ==
    /\ lock = "stratum" /\ strat.pc = "pop"
    /\ strat.job_id \in DOMAIN pending_jobs
    /\ disp.pc = "notify"

(***************************************************************************)
(* Notifies.                                                               *)
(***************************************************************************)
\* the notify sends made for job j
NotifiesOf(j) == { i \in 1..Len(notified) : notified[i].msg.job_id = j }

\* the dispatcher has finished with every request it dequeued
DispatchDone(c) == assigned[c] /= <<>> /\ ~(disp.pc /= "get" /\ disp.client = c)

\* the step in which the dispatcher takes a request while a session is set
DequeueWithDevice ==
    /\ disp.pc = "get" /\ disp'.pc = "lock"

\* the step in which send_mining_notify runs
NotifyStep == disp.pc = "notify" /\ disp'.pc = "get"

\* m is the notify for job j and request data d: the first 64 characters of
\* d padded with "0" on the right, no merkle branch, fixed nbits, clean_jobs
WellFormedNotify(m, j, d) ==
    /\ m.method = "mining.notify"
    /\ m.job_id = j
    /\ Len(m.prevhash) = 64
    /\ \A i \in 1..64 : m.prevhash[i] = IF i <= Len(d) THEN d[i] ELSE "0"
    /\ m.merkle_branch = <<>>
    /\ m.nbits = "1d00ffff"
    /\ m.clean_jobs = TRUE

PopStep == strat.pc = "pop" /\ strat'.pc /= "pop"

\* C21: the entry of a job is in the pending table before its notify is
\* sent: every job id that has been notified is in the table unless
\* complete_job has removed it, and a submit for a notified job id whose
\* entry no earlier submit removed finds the requester the job was given to.
C21_RegisteredBeforeNotify ==
    /\ [](\A i \in 1..Len(notified) :
            LET j == notified[i].msg.job_id
            IN  j \in DOMAIN pending_jobs \/ j \in popped)
    /\ [][(NotifyStep /\ notified' /= notified) =>
            (disp.job_id \in DOMAIN pending_jobs \/ disp.job_id \in popped)]_vars
    /\ [][(PopStep /\ NotifiesOf(strat.job_id) /= {}
                   /\ strat.job_id \notin popped) =>
            /\ strat'.pc = "reply"
            /\ strat'.client \in Clients
            /\ assigned[strat'.client] = strat.job_id
            /\ strat.job_id \notin DOMAIN pending_jobs']_vars

\* C21 witness: the device submitted job 1 while the dispatcher was between
\* storing and notifying the second job, and the submit found its requester.
C21_Witness ==
    /\ strat.pc = "reply" /\ strat.job_id = Hex(1)
    /\ NotifiesOf(Hex(1)) /= {}
    /\ assigned[strat.client] = Hex(1)
    /\ disp.pc = "notify" /\ disp.job_id = Hex(2)
    /\ Hex(2) \in DOMAIN pending_jobs

(***************************************************************************)
(* Job identifiers.                                                        *)
(***************************************************************************)
\* the job id the dispatcher holds for the request it is dispatching
JobInHand == IF disp.pc = "get" THEN <<>> ELSE disp.job_id

\* C22: the job counter starts at 0, changes only in the step that takes a
\* request while a session is set, and there by exactly +1; the job id of
\* that request is the hexadecimal rendering of the new counter, "1" for the
\* first; no two requests are given the same job id, whatever device
\* connections come and go; every key of the pending table is the rendering
\* of a value between 1 and the counter.
C22_JobIdsUniqueIncreasing ==
    /\ job_counter = 0
    /\ [][job_counter' /= job_counter => DequeueWithDevice]_vars
    /\ [][DequeueWithDevice =>
            /\ job_counter' = job_counter + 1
            /\ disp'.job_id = Hex(job_counter')
            /\ job_counter = 0 => disp'.job_id = <<"1">>]_vars
    /\ [](\A a, b \in Clients :
            (a /= b /\ assigned[a] /= <<>>) => assigned[a] /= assigned[b])
    /\ [](\A c \in Clients :
            (JobInHand /= <<>> /\ c /= disp.client) => assigned[c] /= JobInHand)
    /\ [](\A j \in DOMAIN pending_jobs : \E n \in 1..job_counter : j = Hex(n))

\* C22 witness: job 1 was dispatched to the first device connection, that
\* connection was lost, and job 2 was dispatched to the second one.
C22_Witness ==
    /\ job_counter = 2
    /\ assigned[1] = Hex(1) /\ assigned[2] = Hex(2)
    /\ Len(notified) = 2
    /\ notified[1].conn = 1 /\ notified[1].msg.job_id = Hex(1)
    /\ notified[2].conn = 2 /\ notified[2].msg.job_id = Hex(2)
    /\ DOMAIN pending_jobs = {Hex(1), Hex(2)}

(***************************************************************************)
(* What removes a pending entry.                                           *)
(***************************************************************************)
\* a peer drops its connection
DeviceDropStep == \E k \in Conns : dev[k].st = "conn" /\ dev'[k].st = "gone"
ClientDropStep == \E c \in Clients : cl[c].st /= "gone" /\ cl'[c].st = "gone"

\* the pool listener leaves the receive loop, or accepts a connection
SessionEndStep == strat.pc /= "accept" /\ strat'.pc = "accept"
SessionStartStep == strat.pc = "accept" /\ strat'.pc /= "accept"

\* the requesters that have an entry in the table
Waiting == { pending_jobs[j] : j \in DOMAIN pending_jobs }

\* the step leaves the table alone and sends nothing to a waiting requester
TableUntouched ==
    /\ pending_jobs' = pending_jobs
    /\ \A c \in Waiting : cl'[c].rx = cl[c].rx /\ cl'[c].closed = cl[c].closed

\* C23: an entry leaves the pending table only in the pop of complete_job
\* for a submit that names its job id; a device disconnect, the end and the
\* start of a session, a notify (sent or failed) and a requester dropping
\* its connection leave the table unchanged and send nothing to the
\* waiting requesters; while the device has submitted nothing, every
\* registered entry is still in the table.
C23_RemovedOnlyBySubmit ==
    /\ [][\A j \in DOMAIN pending_jobs :
            j \notin DOMAIN pending_jobs' =>
                /\ PopStep /\ strat.job_id = j
                /\ \E s \in 1..Len(submits) : submits[s][2] = j]_vars
    /\ [][(DeviceDropStep \/ ClientDropStep \/ SessionEndStep
             \/ SessionStartStep \/ NotifyStep) => TableUntouched]_vars
    /\ [](submits = <<>> =>
            \A c \in Clients :
                assigned[c] /= <<>> =>
                    /\ assigned[c] \in DOMAIN pending_jobs
                    /\ pending_jobs[assigned[c]] = c
                    /\ cl[c].rx = <<>>)

\* C23 witness: job 1 was notified to the first device connection, which
\* was then lost without a submit; a second connection is the session, the
\* notify of job 2 failed or went to it, and both entries are still in the
\* table with their requesters holding nothing.
C23_Witness ==
    /\ submits = <<>>
    /\ dev[1].st = "gone" /\ s9_conn = 2
    /\ NotifyDelivered(Hex(1))
    /\ DOMAIN pending_jobs = {Hex(1), Hex(2)}
    /\ \A c \in Clients : cl[c].rx = <<>> /\ ~cl[c].closed

(***************************************************************************)
(* The API listener.                                                       *)
(***************************************************************************)
\* c has connected and run_api_server has not accepted it yet
InBacklog(c) == \E i \in 1..Len(api_backlog) : api_backlog[i] = c

\* C24: with fair scheduling of the bridge threads, every API client that
\* has connected is eventually accepted, whatever the clients accepted
\* before it do or fail to do.
C24_ClientsIndependent ==
    \A c \in Clients : InBacklog(c) ~> ~InBacklog(c)
(***************************************************************************)
(*                                                                         *)
(*                 Part 2: silicon_rs_watermark.py                         *)
(*                                                                         *)
(***************************************************************************)

\* a ^ b on non-negative integers
RECURSIVE Xor(_, _)
Xor(a, b) ==
    IF a = 0 THEN b
    ELSE IF b = 0 THEN a
    ELSE ((a + b) % 2) + 2 * Xor(a \div 2, b \div 2)

RECURSIVE Pow2(_)
Pow2(n) == IF n = 0 THEN 1 ELSE 2 * Pow2(n - 1)

\* the sequence f with every element computed
List(f) == f \o <<>>

Range(s) == { s[i] : i \in 1..Len(s) }

\* max(s) and min(s) of a non-empty list
SeqMax(s) == CHOOSE m \in Range(s) : \A n \in Range(s) : n <= m
SeqMin(s) == CHOOSE m \in Range(s) : \A n \in Range(s) : m <= n

PRIM == 285      \* 0x11d

\* x <<= 1; if x & 0x100: x ^= PRIM
GfStep(x) == IF ((2 * x) \div 256) % 2 = 1 THEN Xor(2 * x, PRIM) ELSE 2 * x

\* n successive values of x in the first loop of init_gf_tables, from x on
RECURSIVE GfRun(_, _)
GfRun(x, n) == IF n = 0 THEN <<>> ELSE <<x>> \o GfRun(GfStep(x), n - 1)

\* the same, built in runs of at most 16 values
RECURSIVE GfPowers(_, _)
GfPowers(x, n) ==
    IF n = 0 THEN <<>>
    ELSE LET run == GfRun(x, IF n < 16 THEN n ELSE 16)
         IN  run \o GfPowers(GfStep(run[Len(run)]), n - Len(run))

\* GF_EXP[0..254] after the first loop
GfPowerTable == GfPowers(1, 255)

\* GF_EXP[i], i in 0..511, after init_gf_tables
GF_EXP(i) == GfPowerTable[(i % 255) + 1]

\* GF_LOG[1..255] after the first loop: GF_LOG[GF_EXP[i]] = i
GfLogTable == List([x \in 1..255 |-> CHOOSE i \in 0..254 : GfPowerTable[i + 1] = x])

\* GF_LOG[x], x in 0..255 (GF_LOG[0] is never written)
GF_LOG(x) == IF x = 0 THEN 0 ELSE GfLogTable[x]

gf_mul(x, y) ==
    IF x = 0 \/ y = 0 THEN 0 ELSE GF_EXP((GF_LOG(x) + GF_LOG(y)) % 255)

\* r[k] of gf_poly_mul: the xor of gf_mul(p[i], q[j]) over i + j = k
RECURSIVE PolyMulCoef(_, _, _, _)
PolyMulCoef(p, q, k, j) ==
    IF j > Len(q) THEN 0
    ELSE LET i == k - j + 1
             t == IF i >= 1 /\ i <= Len(p) THEN gf_mul(p[i], q[j]) ELSE 0
         IN  Xor(t, PolyMulCoef(p, q, k, j + 1))

gf_poly_mul(p, q) ==
    List([k \in 1..(Len(p) + Len(q) - 1) |-> PolyMulCoef(p, q, k, 1)])

\* the loop of rs_generator_poly: after i rounds g has i + 1 coefficients
RECURSIVE GenPolyFrom(_, _)
GenPolyFrom(g, nsym) ==
    IF Len(g) = nsym + 1 THEN g
    ELSE GenPolyFrom(gf_poly_mul(g, <<1, GF_EXP(Len(g) - 1)>>), nsym)

rs_generator_poly(nsym) == GenPolyFrom(<<1>>, nsym)

\* the loop of rs_encode from data index i (1-based) on
RECURSIVE EncodeFrom(_, _, _, _)
EncodeFrom(msg_out, gen, i, n) ==
    IF i > n THEN msg_out
    ELSE LET coef == msg_out[i]
             next == IF coef = 0 THEN msg_out
                     ELSE List([k \in 1..Len(msg_out) |->
                              IF k >= i /\ k < i + Len(gen)
                              THEN Xor(msg_out[k], gf_mul(gen[k - i + 1], coef))
                              ELSE msg_out[k]])
         IN  EncodeFrom(next, gen, i + 1, n)

rs_encode(data, nsym) ==
    LET gen == rs_generator_poly(nsym)
        msg_out == EncodeFrom(data \o [k \in 1..nsym |-> 0], gen, 1, Len(data))
    IN  data \o SubSeq(msg_out, Len(data) + 1, Len(msg_out))

\* the loop of gf_poly_eval: ys lists the values y has taken so far
RECURSIVE PolyEvalFrom(_, _, _)
PolyEvalFrom(poly, x, ys) ==
    IF Len(ys) = Len(poly) THEN ys[Len(ys)]
    ELSE PolyEvalFrom(poly, x,
                      Append(ys, Xor(gf_mul(ys[Len(ys)], x), poly[Len(ys) + 1])))

gf_poly_eval(poly, x) == PolyEvalFrom(poly, x, <<poly[1]>>)

rs_syndromes(msg, nsym) ==
    <<0>> \o List([i \in 1..nsym |-> gf_poly_eval(msg, GF_EXP(i - 1))])

\* a check that accepts every block: the smallest entry of the syndrome list
\* (whose first entry is always 0) is 0
NoErrorsMin(synd) == SeqMin(synd) = 0

\* max(synd) == 0
NoErrors(synd) == SeqMax(synd) = 0

Raised == [ok |-> FALSE, val |-> <<>>]
Returned(v) == [ok |-> TRUE, val |-> v]

\* msg[:-nsym]: with nsym = 0 this is msg[:0], the empty string
DropLast(msg, nsym) ==
    IF nsym = 0 THEN <<>> ELSE SubSeq(msg, 1, Len(msg) - nsym)

\* rs_decode_simple: the data bytes, or ValueError
rs_decode_simple(msg, nsym) ==
    IF NoErrors(rs_syndromes(msg, nsym))
    THEN Returned(DropLast(msg, nsym))
    ELSE Raised

RS_NSYM == 32
SIGNATURE_REPEATS == 5
MAX_LENGTH == 10000

(***************************************************************************)
(* Signature records are dictionaries from strings to strings, kept as     *)
(* sequences of <<key, value>> in insertion order; a string is the         *)
(* sequence of its byte codes.  The JSON subset below is the one these     *)
(* records are written in: objects of plain-ASCII strings, no escapes, no  *)
(* white space.  Bytes outside it do not parse.                            *)
(***************************************************************************)
QUOTE == 34
COMMA == 44
COLON == 58
LBRACE == 123
RBRACE == 125
BACKSLASH == 92

EncodeString(s) == <<QUOTE>> \o s \o <<QUOTE>>

RECURSIVE EncodePairs(_, _)
EncodePairs(rec, i) ==
    IF i > Len(rec) THEN <<>>
    ELSE (IF i > 1 THEN <<COMMA>> ELSE <<>>)
         \o EncodeString(rec[i][1]) \o <<COLON>> \o EncodeString(rec[i][2])
         \o EncodePairs(rec, i + 1)

\* json.dumps(signature_dict, separators=(',', ':')).encode('utf-8')
encode_signature(rec) == <<LBRACE>> \o EncodePairs(rec, 1) \o <<RBRACE>>

PlainChar(b) == b >= 32 /\ b < 128 /\ b /= QUOTE /\ b /= BACKSLASH

\* a string literal starting at b[i]: its characters and the index after it
RECURSIVE ScanString(_, _, _)
ScanString(b, i, acc) ==
    IF i > Len(b) THEN [ok |-> FALSE, val |-> <<>>, next |-> i]
    ELSE IF b[i] = QUOTE THEN [ok |-> TRUE, val |-> acc, next |-> i + 1]
    ELSE IF PlainChar(b[i]) THEN ScanString(b, i + 1, Append(acc, b[i]))
    ELSE [ok |-> FALSE, val |-> <<>>, next |-> i]

ParseString(b, i) ==
    IF i <= Len(b) /\ b[i] = QUOTE THEN ScanString(b, i + 1, <<>>)
    ELSE [ok |-> FALSE, val |-> <<>>, next |-> i]

\* d[key] = value on a dictionary kept in insertion order
SetItem(rec, key, value) ==
    IF \E n \in 1..Len(rec) : rec[n][1] = key
    THEN List([n \in 1..Len(rec) |->
                  IF rec[n][1] = key THEN <<key, value>> ELSE rec[n]])
    ELSE Append(rec, <<key, value>>)

RECURSIVE ParsePairs(_, _, _)
ParsePairs(b, i, acc) ==
    LET k == ParseString(b, i) IN
    IF ~k.ok \/ k.next > Len(b) \/ b[k.next] /= COLON THEN Raised
    ELSE LET v == ParseString(b, k.next + 1) IN
         IF ~v.ok \/ v.next > Len(b) THEN Raised
         ELSE IF b[v.next] = COMMA
              THEN ParsePairs(b, v.next + 1, SetItem(acc, k.val, v.val))
         ELSE IF b[v.next] = RBRACE /\ v.next = Len(b)
              THEN Returned(SetItem(acc, k.val, v.val))
         ELSE Raised

\* json.loads(data_bytes.decode('utf-8'))
json_loads(b) ==
    IF Len(b) < 2 \/ b[1] /= LBRACE THEN Raised
    ELSE IF b[2] = RBRACE THEN (IF Len(b) = 2 THEN Returned(<<>>) ELSE Raised)
    ELSE ParsePairs(b, 2, <<>>)

\* decode_signature: the dictionary as <<rec>>, or <<>> for None
decode_signature(data_bytes) ==
    LET r == json_loads(data_bytes) IN IF r.ok THEN <<r.val>> ELSE <<>>

\* `if signature:` for the value decode_signature returned
Truthy(signature) == signature /= <<>> /\ signature[1] /= <<>>

\* length.to_bytes(4, 'big')
LengthHeader(n) ==
    <<(n \div 16777216) % 256, (n \div 65536) % 256, (n \div 256) % 256, n % 256>>

\* the bits of a byte string, least significant bit of each byte first
BitsOfLsbFirst(bytes) ==
    List([n \in 1..(8 * Len(bytes)) |->
             (bytes[((n - 1) \div 8) + 1] \div Pow2((n - 1) % 8)) % 2])

\* the bits of a byte string, most significant bit of each byte first
BitsOf(bytes) ==
    List([n \in 1..(8 * Len(bytes)) |->
             (bytes[((n - 1) \div 8) + 1] \div Pow2(7 - ((n - 1) % 8))) % 2])

RECURSIVE Repeat(_, _)
Repeat(s, n) == IF n = 0 THEN <<>> ELSE s \o Repeat(s, n - 1)

\* the payload of embed_watermark for a record
FullPayload(rec) ==
    LET encoded_data == rs_encode(encode_signature(rec), RS_NSYM)
    IN  Repeat(LengthHeader(Len(encoded_data)) \o encoded_data, SIGNATURE_REPEATS)

\* a capacity test that also refuses a payload filling the image exactly
TooLargeAtFit(nbits, capacity) == nbits >= capacity

\* if len(bits) > capacity
TooLarge(nbits, capacity) == nbits > capacity

\* embed_watermark on the flattened pixel array: the array written to the
\* output file as <<flat>>, or <<>> when the payload does not fit (None)
embed_watermark(flat, rec) ==
    LET bits == BitsOf(FullPayload(rec))
        capacity == Len(flat)
    IN  IF TooLarge(Len(bits), capacity) THEN <<>>
        ELSE << List([i \in 1..Len(flat) |->
                         IF i <= Len(bits) THEN (flat[i] - (flat[i] % 2)) + bits[i]
                         ELSE flat[i]]) >>

\* the length read from the first n bits of length_bits = all_bits[:32].
\* The value is only compared with 0 and with MAX_LENGTH, so it is kept
\* exact up to MAX_LENGTH and held just above it beyond.
RECURSIVE ReadLength(_, _)
ReadLength(length_bits, n) ==
    IF n = 0 THEN 0
    ELSE LET v == 2 * ReadLength(length_bits, n - 1) + length_bits[n]
         IN  IF v > MAX_LENGTH THEN MAX_LENGTH + 1 ELSE v

\* the bytes of data_bits (a whole number of bytes)
BytesOf(data_bits) ==
    List([n \in 1..(Len(data_bits) \div 8) |->
             128 * data_bits[8 * n - 7] + 64 * data_bits[8 * n - 6]
             + 32 * data_bits[8 * n - 5] + 16 * data_bits[8 * n - 4]
             + 8 * data_bits[8 * n - 3] + 4 * data_bits[8 * n - 2]
             + 2 * data_bits[8 * n - 1] + data_bits[8 * n]])

\* the loop over the repetitions from copy rep on: the list of candidates
RECURSIVE Candidates(_, _, _)
Candidates(all_bits, length, rep) ==
    LET single_payload_bits == (4 + length) * 8
        start == rep * single_payload_bits
        end == start + single_payload_bits
    IN  IF rep >= SIGNATURE_REPEATS \/ end > Len(all_bits) THEN <<>>
        ELSE LET payload_bytes == BytesOf(SubSeq(all_bits, start + 33, end))
                 decoded == rs_decode_simple(payload_bytes, RS_NSYM)
                 signature == IF decoded.ok THEN decode_signature(decoded.val)
                              ELSE <<>>
             IN  (IF Truthy(signature) THEN signature ELSE <<>>)
                 \o Candidates(all_bits, length, rep + 1)

\* extract_watermark on the flattened pixel array: <<rec>>, or <<>> for None
extract_watermark(flat) ==
    LET all_bits == List([i \in 1..Len(flat) |-> flat[i] % 2])
        length_bits == SubSeq(all_bits, 1, IF Len(all_bits) < 32 THEN Len(all_bits) ELSE 32)
        length == ReadLength(length_bits, Len(length_bits))
    IN  IF length <= 0 \/ length > MAX_LENGTH THEN <<>>
        ELSE LET candidates == Candidates(all_bits, length, 0)
             IN  IF candidates /= <<>> THEN <<candidates[1]>> ELSE <<>>

(***************************************************************************)
(* The watermark as a state machine: an image and a record are chosen, the *)
(* record is embedded, the saved image may be damaged or embedded into     *)
(* again, and the record is extracted.                                     *)
(***************************************************************************)
Str(c) == <<c>>

RecEmpty == <<>>                                          \* {}
RecA == << <<Str(104), Str(97)>> >>                       \* {"h":"a"}
RecB == << <<Str(104), Str(98)>> >>                       \* {"h":"b"}

WmRecords == {RecEmpty, RecA, RecB}

\* image shapes (h, w, c): too small for every record, an exact fit for the
\* one-field records, and one with room to spare
WmShapes == { <<10, 10, 3>>, <<20, 30, 3>>, <<25, 30, 3>> }

\* arr.flatten() of an image of n channel bytes
Pixels(n) == List([i \in 1..n |-> (37 * i + 11) % 256])

WMIdle ==
    /\ wm_pc = "off" /\ wm_flat = <<>> /\ wm_orig = <<>> /\ wm_sig = <<>>
    /\ wm_out = <<>> /\ wm_flips = {} /\ wm_forged = FALSE

WMInit ==
    /\ wm_pc = "start"
    /\ wm_sig \in WmRecords
    /\ \E s \in WmShapes : wm_flat = Pixels(s[1] * s[2] * s[3])
    /\ wm_orig = wm_flat
    /\ wm_out = <<>> /\ wm_flips = {} /\ wm_forged = FALSE

\* embed_watermark(image, record)
WmEmbed ==
    /\ wm_pc = "start"
    /\ LET out == embed_watermark(wm_flat, wm_sig) IN
       IF out = <<>>
       THEN wm_pc' = "rejected" /\ UNCHANGED wm_flat
       ELSE wm_pc' = "embedded" /\ wm_flat' = out[1]
    /\ UNCHANGED <<wm_orig, wm_sig, wm_out, wm_flips, wm_forged,
                   bridgeVars, vfVars, fnVars>>

Copies == 0..(SIGNATURE_REPEATS - 1)

\* bits of one copy (length prefix and block) of the embedded record
CopyBits == (4 + Len(encode_signature(wm_sig)) + RS_NSYM) * 8

\* the sets of copies damaged together: one copy, all but one, or all
DamagedCopySets ==
    { {k} : k \in Copies } \cup { Copies \ {k} : k \in Copies } \cup { Copies }

DamageKinds == {"prefix", "prefixtop", "byte7", "parity", "burst"}

\* the 1-based positions in the LSB stream a kind of damage flips in copy k:
\* the lowest or the highest bit of the length prefix, the lowest bit of the
\* seventh byte of the block, the last bit of the block, or the lowest bit of
\* each of the first RS_NSYM bytes of the block
DamageBits(k, kind) ==
    LET base == k * CopyBits IN
    CASE kind = "prefix" -> {base + 32}
      [] kind = "prefixtop" -> {base + 1}
      [] kind = "byte7" -> {base + 32 + 56}
      [] kind = "parity" -> {base + CopyBits}
      [] OTHER -> {base + 32 + 8 * n : n \in 1..RS_NSYM}

FlipLsb(b) == IF b % 2 = 0 THEN b + 1 ELSE b - 1

\* damage to the saved image: the same kind of damage in each copy of D
WmDamage(D, kind) ==
    /\ wm_pc = "embedded"
    /\ wm_flips = {} /\ ~wm_forged
    /\ LET bits == UNION {DamageBits(k, kind) : k \in D} IN
       /\ wm_flips' = bits
       /\ wm_flat' = List([i \in 1..Len(wm_flat) |->
                              IF i \in bits THEN FlipLsb(wm_flat[i]) ELSE wm_flat[i]])
    /\ UNCHANGED <<wm_pc, wm_orig, wm_sig, wm_out, wm_forged, bridgeVars,
                   vfVars, fnVars>>

\* embed_watermark(watermarked image, another record)
WmForge(rec) ==
    /\ wm_pc = "embedded"
    /\ wm_flips = {} /\ ~wm_forged
    /\ rec /= wm_sig
    /\ LET out == embed_watermark(wm_flat, rec) IN
       /\ out /= <<>>
       /\ wm_flat' = out[1]
    /\ wm_forged' = TRUE
    /\ UNCHANGED <<wm_pc, wm_orig, wm_sig, wm_out, wm_flips, bridgeVars,
                   vfVars, fnVars>>

\* extract_watermark(image)
WmExtract ==
    /\ wm_pc = "embedded"
    /\ wm_out' = extract_watermark(wm_flat)
    /\ wm_pc' = "extracted"
    /\ UNCHANGED <<wm_flat, wm_orig, wm_sig, wm_flips, wm_forged,
                   bridgeVars, vfVars, fnVars>>

(***************************************************************************)
(* Properties of the watermark.                                            *)
(***************************************************************************)
\* the bits embed_watermark wrote for the embedded record
EmbeddedBits == BitsOf(FullPayload(wm_sig))

BlockLen == Len(encode_signature(wm_sig)) + RS_NSYM

Lsb(i) == wm_flat[i] % 2

\* copy k of the LSB stream (length prefix and block) is as it was embedded
CopyIntact(e, k) ==
    \A i \in (k * CopyBits + 1)..((k + 1) * CopyBits) : Lsb(i) = e[i]

\* the length prefix of the first copy is as it was embedded
PrefixIntact(e) == \A i \in 1..32 : Lsb(i) = e[i]

\* the bytes of the block of copy k that differ from the embedded ones
DiffBytes(e, k) ==
    { n \in 1..BlockLen :
        \E b \in 1..8 : LET i == k * CopyBits + 32 + 8 * (n - 1) + b
                         IN  Lsb(i) /= e[i] }

\* C2: extracting from the undamaged output of embed_watermark returns the
\* embedded record, for every record that fits the image.
C2_RoundTrip ==
    (wm_pc = "extracted" /\ wm_flips = {} /\ ~wm_forged) => wm_out = <<wm_sig>>

\* C3: after any damage that leaves at least one of the copies (length
\* prefix and block) intact, extraction returns the embedded record (stated
\* for the non-empty records).
C3_PartialDamageRecovery ==
    (wm_pc = "extracted" /\ wm_sig /= RecEmpty)
    => LET e == EmbeddedBits IN
       (\E k \in Copies : CopyIntact(e, k)) => wm_out = <<wm_sig>>

\* C4 (unconditional form): if every copy differs from the embedded one in at least one
\* byte of its block, extraction returns no record (stated for the non-empty
\* records).
C4_AnyCorruptionRejected ==
    (wm_pc = "extracted" /\ wm_sig /= RecEmpty)
    => LET e == EmbeddedBits IN
       (\A k \in Copies : DiffBytes(e, k) /= {}) => wm_out = <<>>

\* C4: with the length prefix of the first copy intact and a block
\* of at most 255 bytes, if no copy differs from the embedded one in more
\* than RS_NSYM bytes of its block then extraction returns the embedded
\* record or none, and it returns none if every copy differs in at least
\* one byte.
C4_NoWrongRecord ==
    wm_pc = "extracted"
    => LET e == EmbeddedBits IN
       ( /\ PrefixIntact(e)
         /\ BlockLen <= 255
         /\ \A k \in Copies : Cardinality(DiffBytes(e, k)) <= RS_NSYM )
       => /\ wm_out \in {<<>>, <<wm_sig>>}
          /\ (\A k \in Copies : DiffBytes(e, k) /= {}) => wm_out = <<>>

\* C4 witness: RS_NSYM bytes of every copy's block were damaged and
\* extraction reported failure.
C4_Witness ==
    /\ wm_pc = "extracted" /\ wm_sig = RecA /\ ~wm_forged
    /\ wm_flips = UNION {DamageBits(k, "burst") : k \in Copies}
    /\ wm_out = <<>>


\* 8 * SIGNATURE_REPEATS * (4 + len(JSON) + RS_NSYM)
PayloadBitCount == SIGNATURE_REPEATS * CopyBits

\* C18: embed_watermark refuses exactly the payloads with more bits than the
\* image has channel bytes, and then leaves every pixel as it was and
\* produces no output; otherwise it writes the payload bits into the least
\* significant bits of the first channel bytes and changes nothing else.
C18_CapacityRejection ==
    /\ wm_pc = "rejected" =>
          PayloadBitCount > Len(wm_orig) /\ wm_flat = wm_orig
    /\ (wm_pc = "embedded" /\ wm_flips = {} /\ ~wm_forged) =>
          LET e == EmbeddedBits
              n == PayloadBitCount
          IN  /\ n <= Len(wm_orig) /\ Len(e) = n
              /\ Len(wm_flat) = Len(wm_orig)
              /\ \A i \in 1..Len(wm_flat) :
                    /\ wm_flat[i] \div 2 = wm_orig[i] \div 2
                    /\ wm_flat[i] % 2 = IF i <= n THEN e[i] ELSE wm_orig[i] % 2

\* C18 witness: a one-field record was refused on the 10 x 10 image.
C18_Witness ==
    /\ wm_pc = "rejected" /\ wm_sig = RecA
    /\ Len(wm_orig) = 300 /\ wm_flat = wm_orig

\* the pixel bytes the record's hash was computed from: those of the image
\* as it was loaded, before anything was embedded
HashedPixels == wm_orig

\* the pixel bytes of the image embed_watermark saved
SavedPixels == wm_flat

\* C19 (the watermarked image): the hash in the record is the hash of the
\* pixel bytes of the image saved with it; SHA-256 being taken as injective,
\* that is, the saved pixel bytes are the hashed ones.
C19_HashMatchesSavedPixels ==
    (wm_pc = "embedded" /\ wm_flips = {} /\ ~wm_forged) =>
        SavedPixels = HashedPixels

\* the least significant bits of the first n channel bytes of the saved
\* image
LsbStream(n) == List([i \in 1..n |-> wm_flat[i] % 2])

\* C25: when embed_watermark succeeds with a payload of N bits, the array
\* it saves has the length of the input, every channel byte keeps its upper
\* seven bits, the channel bytes after the first N are unchanged, and the
\* least significant bits of the first N channel bytes, taken eight at a
\* time with the first as the most significant, are the payload bytes.
C25_EmbeddingFrame ==
    (wm_pc = "embedded" /\ wm_flips = {} /\ ~wm_forged) =>
        LET payload == FullPayload(wm_sig)
            N == 8 * Len(payload)
        IN  /\ N <= Len(wm_orig)
            /\ Len(wm_flat) = Len(wm_orig)
            /\ \A i \in 1..Len(wm_flat) :
                  /\ wm_flat[i] \div 2 = wm_orig[i] \div 2
                  /\ i > N => wm_flat[i] = wm_orig[i]
            /\ BytesOf(LsbStream(N)) = payload

\* C25 witness: a one-field record was embedded in the image with room to
\* spare; some of the first channel bytes changed and the rest did not.
C25_Witness ==
    /\ wm_pc = "embedded" /\ wm_flips = {} /\ ~wm_forged
    /\ wm_sig = RecB
    /\ Len(wm_orig) = 2250 /\ PayloadBitCount = 1800
    /\ \E i \in 1..1800 : wm_flat[i] /= wm_orig[i]
    /\ wm_flat[1801] = wm_orig[1801]

(***************************************************************************)
(* The Reed-Solomon functions called on their own: a byte string is        *)
(* encoded with nsym parity symbols and the result is decoded.             *)
(***************************************************************************)
MaxDataLen == 3     \* bytes of the data encoded

RsByteValues == {0, 1, 97, 255}
RsData == UNION { [1..n -> RsByteValues] : n \in 0..MaxDataLen }
RsNsyms == {0, 1, 2, RS_NSYM}

RSInit ==
    /\ fn_pc = "rs_start"
    /\ fn_in \in [data : RsData, nsym : RsNsyms]
    /\ fn_out = <<>>

\* rs_encode(data, nsym)
RsEncode ==
    /\ fn_pc = "rs_start"
    /\ fn_out' = <<rs_encode(fn_in.data, fn_in.nsym)>>
    /\ fn_pc' = "rs_encoded"
    /\ UNCHANGED <<fn_in, bridgeVars, wmVars, vfVars>>

\* rs_decode_simple(codeword, nsym)
RsDecode ==
    /\ fn_pc = "rs_encoded"
    /\ fn_out' = Append(fn_out, rs_decode_simple(fn_out[1], fn_in.nsym))
    /\ fn_pc' = "rs_decoded"
    /\ UNCHANGED <<fn_in, bridgeVars, wmVars, vfVars>>

\* the codeword is the data followed by nsym bytes
Systematic(cw, data, nsym) ==
    /\ Len(cw) = Len(data) + nsym
    /\ \A i \in 1..Len(data) : cw[i] = data[i]

\* the nsym syndromes of the codeword are zero
SyndromesZero(cw, nsym) ==
    LET synd == rs_syndromes(cw, nsym)
    IN  Len(synd) = nsym + 1 /\ \A i \in 1..(nsym + 1) : synd[i] = 0

NOT_HEX == 16

\* the sum of i * (s[i] + 1) over lo..hi modulo 251, by halves
RECURSIVE SumTerms(_, _, _)
SumTerms(s, lo, hi) ==
    IF lo > hi THEN 0
    ELSE IF lo = hi THEN (lo * (s[lo] + 1)) % 251
    ELSE LET mid == (lo + hi) \div 2
         IN  (SumTerms(s, lo, mid) + SumTerms(s, mid + 1, hi)) % 251

\* what the stand-in for SHA-256 keeps of its input
Mix(data_bytes) ==
    (7 * Len(data_bytes) + SumTerms(data_bytes, 1, Len(data_bytes))) % 251

\* hashlib.sha256(data_bytes).digest(): 32 bytes fixed by the input; the last
\* six are zero for vf_seed of the 251 values of Mix
sha256(data_bytes) ==
    LET m == Mix(data_bytes) IN
    List([i \in 1..32 |->
             IF i > 26 THEN (IF m < vf_seed THEN 0 ELSE 1 + ((m + i) % 255))
             ELSE (m * i + i) % 256])

double_sha256(data_bytes) == sha256(sha256(data_bytes))

\* bytes.hex()
HexOf(bytes) ==
    List([n \in 1..(2 * Len(bytes)) |->
             IF n % 2 = 1 THEN bytes[(n + 1) \div 2] \div 16
             ELSE bytes[n \div 2] % 16])

\* binascii.unhexlify raises on an odd length or a character that is no digit
CanUnhexlify(hex_str) ==
    /\ Len(hex_str) % 2 = 0
    /\ \A n \in 1..Len(hex_str) : hex_str[n] < NOT_HEX

unhexlify(hex_str) ==
    List([n \in 1..(Len(hex_str) \div 2) |-> 16 * hex_str[2 * n - 1] + hex_str[2 * n]])

\* chunk[6:8] + chunk[4:6] + chunk[2:4] + chunk[0:2], as 1-based offsets
SwabOffset == <<7, 8, 5, 6, 3, 4, 1, 2>>

\* a swap that reverses the order of the full 8-character chunks and leaves
\* each chunk as it is
SwabGroups(hex_str) ==
    List([n \in 1..(8 * (Len(hex_str) \div 8)) |->
             hex_str[8 * ((Len(hex_str) \div 8) - 1 - ((n - 1) \div 8))
                     + ((n - 1) % 8) + 1]])

\* swab32: every full 8-character chunk with its bytes reversed; a trailing
\* shorter chunk is dropped
swab32(hex_str) ==
    List([n \in 1..(8 * (Len(hex_str) \div 8)) |->
             hex_str[8 * ((n - 1) \div 8) + SwabOffset[((n - 1) % 8) + 1]]])

\* reverse_bytes: the 2-character slices at len-2, len-4, ... down to 0 or 1
reverse_bytes(hex_str) ==
    List([n \in 1..(2 * (Len(hex_str) \div 2)) |->
             hex_str[(Len(hex_str) - 2 * ((n + 1) \div 2)) + 1 + ((n - 1) % 2)]])

\* the three renderings of a field: [x, reverse_bytes(x), swab32(x)]
Renderings(x) == <<x, reverse_bytes(x), swab32(x)>>

Zeros(n) == List([i \in 1..n |-> 0])

\* 0x00000000ffff0000...00 as 32 bytes
TargetBytes == List([i \in 1..32 |-> IF i = 5 \/ i = 6 THEN 255 ELSE 0])

\* a < b for two byte strings of one length read as big-endian integers
LessThan(a, b) ==
    \E i \in 1..Len(a) :
        /\ a[i] < b[i]
        /\ \A j \in 1..(i - 1) : a[j] = b[j]

\* digest[::-1]
Reversed(bytes) == List([i \in 1..Len(bytes) |-> bytes[Len(bytes) + 1 - i]])

NBITS == <<1, 13, 0, 0, 15, 15, 15, 15>>       \* "1d00ffff"

\* comp as the list of the values of opts' keys: v, p, nt, nb, no, en2
Comp(meta) == <<meta.v, meta.p, meta.nt, NBITS, meta.no, meta.en2>>

NFIELDS == 6
RECURSIVE Pow3(_)
Pow3(n) == IF n = 0 THEN 1 ELSE 3 * Pow3(n - 1)

\* the length of itertools.product over three renderings of each field
COMBINATIONS == Pow3(NFIELDS)

\* the rendering (1..3) of field f (1..6) in the idx-th element (from 0) of
\* itertools.product: the last field varies fastest
Choice(idx, f) == ((idx \div Pow3(NFIELDS - f)) % 3) + 1

\* the value of field f in combination idx
Field(comp, idx, f) == Renderings(comp[f])[Choice(idx, f)]

\* "00"*32 + "00000000" + en2 + "00"*32
CoinbaseHex(en2) == Zeros(64) \o Zeros(8) \o en2 \o Zeros(64)

\* header = v + p + mr + nt + nb + no
HeaderHex(comp, idx, mr) ==
    Field(comp, idx, 1) \o Field(comp, idx, 2) \o mr
    \o Field(comp, idx, 3) \o Field(comp, idx, 4) \o Field(comp, idx, 5)

\* the body of the inner try for one header: unhexlify raises (skipped), or
\* the reversed double hash is compared with the target
HeaderBelowTarget(header) ==
    /\ CanUnhexlify(header)
    /\ LessThan(Reversed(double_sha256(unhexlify(header))), TargetBytes)

\* the merkle roots tried for an extranonce2 rendering
MerkleRenderings(en2) ==
    Renderings(HexOf(double_sha256(unhexlify(CoinbaseHex(en2)))))

\* the merkle renderings (1..3) of combination idx whose header is below target
Hits(comp, idx) ==
    LET mrs == MerkleRenderings(Field(comp, idx, 6))
    IN  { r \in 1..3 : HeaderBelowTarget(HeaderHex(comp, idx, mrs[r])) }

\* an integrity check that lets every image through
IntegrityOkAlways(current_hash, meta_hash) == TRUE

\* current_hash != meta["Silicon-Auth-Hash"] is false
IntegrityOk(current_hash, meta_hash) == current_hash = meta_hash

(***************************************************************************)
(* Inputs of the verifier: an image file that may not exist, whose text    *)
(* chunks may lack the hash or another field, and whose pixels may have    *)
(* changed since the record was made.                                      *)
(***************************************************************************)
PixelsSigned == <<128, 128, 128, 128>>
PixelsChanged == <<128, 129, 128, 128>>

VERSION == <<2, 0, 0, 0, 0, 0, 0, 0>>           \* "20000000"
NTIME == <<6, 9, 6, 4, 12, 8, 5, 14>>           \* "6964c85e"
NONCE == <<15, 1, 6, 8, 2, 3, 11, 1>>           \* "f16823b1"
EN2_EVEN == <<0, 0, 0, 0, 0, 0, 0, 1>>          \* "00000001"
EN2_ODD == <<10, 11, 12>>                       \* "abc"
NONCE_TEXT == <<15, 1, NOT_HEX, NOT_HEX>>       \* "f1zz"

Extranonce2Inputs == {EN2_EVEN, EN2_ODD}
NonceInputs == {NONCE, NONCE_TEXT}

\* the text chunks written for an image of pixels signed_pixels
MetaFor(signed_pixels, en2, nonce) ==
    [v |-> VERSION, p |-> HexOf(sha256(signed_pixels)), en2 |-> en2,
     nt |-> NTIME, no |-> nonce]

VfInputs ==
    { [exists |-> e, has_hash |-> h, has_fields |-> f, pixels |-> px,
       en2 |-> x, nonce |-> n] :
        e \in BOOLEAN, h \in BOOLEAN, f \in BOOLEAN,
        px \in {PixelsSigned, PixelsChanged},
        x \in Extranonce2Inputs, n \in NonceInputs }

\* inputs that differ only in what the code never reads are kept once
VfPlain(i) == i.en2 = EN2_EVEN /\ i.nonce = NONCE

VfInputsKept ==
    { i \in VfInputs :
        /\ ~i.exists => (i.has_hash /\ i.has_fields /\ i.pixels = PixelsSigned
                         /\ VfPlain(i))
        /\ ~i.has_hash => (i.has_fields /\ i.pixels = PixelsSigned /\ VfPlain(i))
        /\ ~i.has_fields => VfPlain(i)
        /\ i.pixels = PixelsChanged => (i.has_fields /\ VfPlain(i)) }

SeedInputs == {0, 1, 2}

VFIdle ==
    /\ vf_pc = "off" /\ vf_in = <<>> /\ vf_idx = 0 /\ vf_hashed = 0
    /\ vf_seed = 0

VFInit ==
    /\ vf_pc = "start"
    /\ vf_seed \in SeedInputs
    /\ \E i \in VfInputsKept : vf_in = <<i>>
    /\ vf_idx = 0 /\ vf_hashed = 0

VfMeta == MetaFor(PixelsSigned, vf_in[1].en2, vf_in[1].nonce)

\* verify_art up to the search loop: the file, the hash key, the integrity
\* check, and the other keys (a missing one raises KeyError)
VfStart ==
    /\ vf_pc = "start"
    /\ LET i == vf_in[1] IN
       vf_pc' = IF ~i.exists THEN "fail"
                ELSE IF ~i.has_hash THEN "fail"
                ELSE IF ~IntegrityOk(HexOf(sha256(i.pixels)), VfMeta.p) THEN "fail"
                ELSE IF ~i.has_fields THEN "raised"
                ELSE "search"
    /\ UNCHANGED <<vf_in, vf_idx, vf_hashed, vf_seed, bridgeVars, wmVars,
                   fnVars>>

\* one pass of the outer loop: the coinbase of this combination's extranonce2
\* (unhexlify outside any try), then the three merkle renderings in turn
VfTry ==
    /\ vf_pc = "search"
    /\ vf_idx < COMBINATIONS
    /\ LET comp == Comp(VfMeta)
           en2 == Field(comp, vf_idx, 6)
       IN  IF ~CanUnhexlify(CoinbaseHex(en2))
           THEN vf_pc' = "raised" /\ UNCHANGED <<vf_idx, vf_hashed>>
           ELSE LET mrs == MerkleRenderings(en2)
                    can == { r \in 1..3 :
                               CanUnhexlify(HeaderHex(comp, vf_idx, mrs[r])) }
                    hits == Hits(comp, vf_idx)
                IN  IF hits /= {}
                    THEN LET first == CHOOSE r \in hits : \A q \in hits : r <= q IN
                         /\ vf_pc' = "success"
                         /\ vf_hashed' =
                               vf_hashed + Cardinality({r \in can : r <= first})
                         /\ UNCHANGED vf_idx
                    ELSE /\ vf_idx' = vf_idx + 1
                         /\ vf_hashed' = vf_hashed + Cardinality(can)
                         /\ UNCHANGED vf_pc
    /\ UNCHANGED <<vf_in, vf_seed, bridgeVars, wmVars, fnVars>>

\* the loop is exhausted: return False
VfExhausted ==
    /\ vf_pc = "search"
    /\ vf_idx = COMBINATIONS
    /\ vf_pc' = "fail"
    /\ UNCHANGED <<vf_in, vf_idx, vf_hashed, vf_seed, bridgeVars, wmVars,
                   fnVars>>

(***************************************************************************)
(* Properties of the verifier.                                             *)
(***************************************************************************)
VfDone == vf_pc \in {"success", "fail", "raised"}

\* the integrity check passed for the input of this run
VfIntact ==
    /\ vf_in[1].exists /\ vf_in[1].has_hash /\ vf_in[1].has_fields
    /\ HexOf(sha256(vf_in[1].pixels)) = VfMeta.p

\* some combination of renderings whose merkle root can be derived has a
\* header below target
SomeCombinationBelow ==
    LET comp == Comp(VfMeta) IN
    \E idx \in 0..(COMBINATIONS - 1) :
        /\ CanUnhexlify(CoinbaseHex(Field(comp, idx, 6)))
        /\ Hits(comp, idx) /= {}

\* C5: for an image whose pixel hash equals the record's hash, the verifier
\* ends with success if and only if some combination of renderings is below
\* target; it succeeds at the first such combination and reports failure
\* only after trying every combination.
C5_SuccessIffCombination ==
    (VfDone /\ VfIntact) =>
        /\ (vf_pc = "success") <=> SomeCombinationBelow
        /\ (vf_pc = "success") =>
              \A idx \in 0..(vf_idx - 1) : Hits(Comp(VfMeta), idx) = {}
        /\ (vf_pc = "fail") => vf_idx = COMBINATIONS

\* C6: when the hash of the pixels differs from the record's hash the
\* verifier fails without hashing any header, and the search is only ever
\* entered with the two hashes equal.
C6_IntegrityFirst ==
    /\ ( /\ vf_pc \notin {"off", "start"}
         /\ vf_in[1].exists /\ vf_in[1].has_hash
         /\ HexOf(sha256(vf_in[1].pixels)) /= VfMeta.p )
       => (vf_pc = "fail" /\ vf_hashed = 0 /\ vf_idx = 0)
    /\ (vf_pc \in {"search", "success"} \/ vf_hashed > 0 \/ vf_idx > 0)
       => HexOf(sha256(vf_in[1].pixels)) = VfMeta.p

\* C6 witness: an image changed after signing was verified and the run ended
\* in failure before any header was hashed.
C6_Witness ==
    /\ vf_pc = "fail"
    /\ vf_in[1].exists /\ vf_in[1].has_hash
    /\ vf_in[1].pixels = PixelsChanged
    /\ vf_hashed = 0 /\ vf_idx = 0


\* the search loop has been entered in this run
VfSearched == VfIntact /\ vf_pc \notin {"off", "start"}

\* C27: the search is bounded and returns.  There are 3^6 = 729
\* combinations; every pass of the loop moves to the next combination or
\* ends the search, having hashed at most three headers; a run that entered
\* the search ends by returning, and when it returns failure all 729
\* combinations have been visited, those with headers that are not valid
\* hex included.
C27_BoundedSearch ==
    /\ [](COMBINATIONS = 729)
    /\ [](vf_idx <= COMBINATIONS /\ vf_hashed <= 3 * COMBINATIONS)
    /\ [][(vf_pc = "search" /\ vf_pc' = "search") =>
            /\ vf_idx' = vf_idx + 1
            /\ vf_hashed' <= vf_hashed + 3]_vars
    /\ []((VfSearched /\ VfDone) => vf_pc \in {"success", "fail"})
    /\ []((VfSearched /\ vf_pc = "fail") => vf_idx = COMBINATIONS)

HEADER_BYTES == 80

\* the headers hashed and compared with the target in the pass for
\* combination idx: those that unhexlify, up to the first one below target
HeadersHashed(comp, idx) ==
    LET mrs == MerkleRenderings(Field(comp, idx, 6))
        can == { r \in 1..3 : CanUnhexlify(HeaderHex(comp, idx, mrs[r])) }
        hits == Hits(comp, idx)
    IN  { unhexlify(HeaderHex(comp, idx, mrs[r])) :
            r \in { q \in can : \A h \in hits : q <= h } }

\* a pass of the search loop in which at least one header is hashed
HashingStep == vf_pc = "search" /\ vf_hashed' > vf_hashed

\* C29: every header hashed and compared with the target is 80 bytes long,
\* whatever the strings stored in the record.
C29_HeaderIs80Bytes ==
    [][HashingStep =>
         \A h \in HeadersHashed(Comp(VfMeta), vf_idx) : Len(h) = HEADER_BYTES]_vars

(***************************************************************************)
(* The byte-order renderings called on their own: reverse_bytes and swab32 *)
(* are applied to a string, and then each to its own result.               *)
(***************************************************************************)
MaxHexLen == 16     \* characters of the string rendered

\* whole 4-byte groups, half groups, and lengths that are neither
HexLens == { n \in 0..MaxHexLen : n % 4 = 0 \/ n % 8 = 3 }

\* strings of hex digits and other characters
HexStrings ==
    { List([i \in 1..n |-> (a * i + b) % (NOT_HEX + 1)]) :
        n \in HexLens, a \in 0..3, b \in 0..3 }

SwabInit ==
    /\ fn_pc = "swab_start"
    /\ fn_in \in HexStrings
    /\ fn_out = <<>>

\* reverse_bytes(s) and swab32(s)
SwabOnce ==
    /\ fn_pc = "swab_start"
    /\ fn_out' = <<reverse_bytes(fn_in), swab32(fn_in)>>
    /\ fn_pc' = "swab_once"
    /\ UNCHANGED <<fn_in, bridgeVars, wmVars, vfVars>>

\* reverse_bytes(reverse_bytes(s)) and swab32(swab32(s))
SwabTwice ==
    /\ fn_pc = "swab_once"
    /\ fn_out' = fn_out \o <<reverse_bytes(fn_out[1]), swab32(fn_out[2])>>
    /\ fn_pc' = "swab_twice"
    /\ UNCHANGED <<fn_in, bridgeVars, wmVars, vfVars>>

\* t is s with the byte order reversed inside each 4-byte group (8
\* characters) and the groups in the order of s
GroupwiseReversed(t, s) ==
    \A g \in 0..((Len(s) \div 8) - 1) : \A b \in 0..3 : \A c \in 1..2 :
        t[8 * g + 2 * b + c] = s[8 * g + 2 * (3 - b) + c]

\* C28: for a string whose length is a multiple of 8, reverse_bytes and
\* swab32 return strings of the same length, swab32 reverses the bytes
\* inside each 4-byte group and keeps the order of the groups, and each of
\* the two applied to its own result returns the string.
C28_Involutions ==
    (fn_pc \in {"swab_once", "swab_twice"} /\ Len(fn_in) % 8 = 0) =>
        /\ Len(fn_out[1]) = Len(fn_in)
        /\ Len(fn_out[2]) = Len(fn_in)
        /\ GroupwiseReversed(fn_out[2], fn_in)
        /\ fn_pc = "swab_twice" => (fn_out[3] = fn_in /\ fn_out[4] = fn_in)

\* C28 witness: a string of two 4-byte groups was rendered twice; the two
\* renderings differ from it and from each other, and rendering them again
\* gave the string back.
C28_Witness ==
    /\ fn_pc = "swab_twice" /\ Len(fn_in) = 16
    /\ fn_out[1] /= fn_in /\ fn_out[2] /= fn_in /\ fn_out[1] /= fn_out[2]
    /\ fn_out[3] = fn_in /\ fn_out[4] = fn_in

(***************************************************************************)
(*                                                                         *)
(*                 Part 4: drivers/asic_interface.py                       *)
(*                                                                         *)
(* One input is hashed several times, through LV06Interface.hash and       *)
(* through SoftwareHasher.hash.  What the bridge answers to each job is    *)
(* the environment's choice.  SHA-256 is the function of Part 3.           *)
(***************************************************************************)
MaxHashCalls == 2   \* calls of hash on the input during a run

\* int(s, 16) for a string of hex digits
RECURSIVE IntOfHex(_)
IntOfHex(s) ==
    IF s = <<>> THEN 0
    ELSE 16 * IntOfHex(SubSeq(s, 1, Len(s) - 1)) + s[Len(s)]

\* int(s, 16) accepts s
IsHexNumber(s) == s /= <<>> /\ \A n \in 1..Len(s) : s[n] < NOT_HEX

\* str(n).encode(): the ASCII decimal digits of n
RECURSIVE DecimalBytes(_)
DecimalBytes(n) ==
    IF n < 10 THEN <<48 + n>>
    ELSE DecimalBytes(n \div 10) \o <<48 + (n % 10)>>

\* what comes back on the bridge connection: nothing (connect or recv
\* fails, or the connection is closed empty), the error object, or the
\* success object with the nonce of the device's submit
BridgeReplies ==
    { [kind |-> "none", nonce |-> <<>>], [kind |-> "error", nonce |-> <<>>] }
    \cup { [kind |-> "success", nonce |-> n] :
             n \in { <<0>>, <<1>>, <<15, 1>>, <<15, NOT_HEX>> } }

\* hashlib.sha256(data).hexdigest()
hexdigest(data) == HexOf(sha256(data))

\* final_data = data + str(nonce).encode(); sha256(final_data).hexdigest()
JobHash(data, nonce) == hexdigest(data \o DecimalBytes(nonce))

\* submit_hash_job: <<hash_value>> of the HashResult, or <<>> for None
submit_hash_job(data, reply) ==
    IF reply.kind /= "success" THEN <<>>
    ELSE IF ~IsHexNumber(reply.nonce) THEN <<>>      \* int(...) raises
    ELSE <<JobHash(data, IntOfHex(reply.nonce))>>

\* SoftwareHasher.hash
software_hash(data) == hexdigest(data)

\* LV06Interface.hash
lv06_hash(data, reply) ==
    LET result == submit_hash_job(data, reply)
    IN  IF result /= <<>> THEN result[1] ELSE software_hash(data)

HashData == { <<>>, <<1, 2>>, <<255>> }

HashInit ==
    /\ fn_pc = "hash"
    /\ fn_in \in HashData
    /\ fn_out = <<>>

\* asic.hash(data), the bridge answering reply
Lv06Hash(reply) ==
    /\ fn_pc = "hash"
    /\ Len(fn_out) < MaxHashCalls
    /\ fn_out' = Append(fn_out, [by |-> "lv06", reply |-> reply.kind,
                                 value |-> lv06_hash(fn_in, reply)])
    /\ UNCHANGED <<fn_pc, fn_in, bridgeVars, wmVars, vfVars>>

\* software_hasher.hash(data)
SoftwareHash ==
    /\ fn_pc = "hash"
    /\ Len(fn_out) < MaxHashCalls
    /\ fn_out' = Append(fn_out, [by |-> "software", reply |-> "none",
                                 value |-> software_hash(fn_in)])
    /\ UNCHANGED <<fn_pc, fn_in, bridgeVars, wmVars, vfVars>>

\* C30: every hash of the input through the device interface has the same
\* value, whatever the bridge answered, and that value is the one the
\* software hasher gives.
C30_HashDeterministic ==
    /\ \A i, j \in 1..Len(fn_out) : fn_out[i].value = fn_out[j].value
    /\ \A i \in 1..Len(fn_out) : fn_out[i].value = software_hash(fn_in)
(***************************************************************************)
(* Specifications.                                                         *)
(***************************************************************************)
Init == BridgeInit /\ WMIdle /\ VFIdle /\ FNIdle

Next ==
    \/ \E c \in Clients : ClientConnect(c)
    \/ \E c \in Clients, r \in ReqInputs : ClientSend(c, r)
    \/ \E c \in Clients : ClientClose(c)
    \/ \E k \in Conns : DeviceConnect(k)
    \/ \E k \in Conns : \E m \in DevLineInputs(dev_msgs + 1) : DeviceSend(k, m)
    \/ \E k \in Conns : DeviceClose(k)
    \/ ApiAccept
    \/ ApiRecv
    \/ DispDequeue
    \/ DispLock
    \/ DispStore
    \/ DispNotify
    \/ StratumAccept
    \/ StratumRecv
    \/ StratumLock
    \/ StratumPop
    \/ StratumReply

\* the bridge with any clients and any device
Spec == Init /\ [][Next]_vars

NextLive ==
    \/ \E c \in Clients : ClientConnect(c)
    \/ \E c \in Clients, r \in ReqInputs : ClientSend(c, r)
    \/ LiveDeviceConnect
    \/ LiveDeviceSubmit
    \/ ApiAccept
    \/ ApiRecv
    \/ DispDequeue
    \/ DispLock
    \/ DispStore
    \/ DispNotify
    \/ StratumAccept
    \/ StratumRecv
    \/ StratumLock
    \/ StratumPop
    \/ StratumReply

\* the bridge with patient clients and the well-behaved device; every thread
\* of the bridge and the device keep taking the steps they can take
SpecLive ==
    /\ Init /\ [][NextLive]_vars
    /\ WF_vars(LiveDeviceSubmit)
    /\ WF_vars(ApiAccept) /\ WF_vars(ApiRecv)
    /\ WF_vars(DispDequeue) /\ WF_vars(DispLock)
    /\ WF_vars(DispStore) /\ WF_vars(DispNotify)
    /\ WF_vars(StratumAccept) /\ WF_vars(StratumRecv)
    /\ WF_vars(StratumLock) /\ WF_vars(StratumPop) /\ WF_vars(StratumReply)

NextSessions ==
    \/ NextLive
    \/ SecondDeviceConnect

\* the same bridge and clients with two devices that connect and stay
\* connected, the first one well-behaved, the second one waiting
SpecSessions ==
    /\ Init /\ [][NextSessions]_vars
    /\ WF_vars(LiveDeviceSubmit)
    /\ WF_vars(ApiAccept) /\ WF_vars(ApiRecv)
    /\ WF_vars(DispDequeue) /\ WF_vars(DispLock)
    /\ WF_vars(DispStore) /\ WF_vars(DispNotify)
    /\ WF_vars(StratumAccept) /\ WF_vars(StratumRecv)
    /\ WF_vars(StratumLock) /\ WF_vars(StratumPop) /\ WF_vars(StratumReply)

InitWM == BridgeInit /\ VFIdle /\ FNIdle /\ WMInit

NextWM ==
    \/ WmEmbed
    \/ \E D \in DamagedCopySets, kind \in DamageKinds : WmDamage(D, kind)
    \/ \E rec \in WmRecords : WmForge(rec)
    \/ WmExtract

\* the watermark: embed, damage or re-embed, extract
SpecWM == InitWM /\ [][NextWM]_vars

InitRS == BridgeInit /\ WMIdle /\ VFIdle /\ RSInit

NextRS ==
    \/ RsEncode
    \/ RsDecode

\* the Reed-Solomon encoder and the syndrome check on one byte string
SpecRS == InitRS /\ [][NextRS]_vars

InitSwab == BridgeInit /\ WMIdle /\ VFIdle /\ SwabInit

NextSwab ==
    \/ SwabOnce
    \/ SwabTwice

\* the two byte-order renderings applied once and twice to one string
SpecSwab == InitSwab /\ [][NextSwab]_vars

InitHash == BridgeInit /\ WMIdle /\ VFIdle /\ HashInit

NextHash ==
    \/ \E reply \in BridgeReplies : Lv06Hash(reply)
    \/ SoftwareHash

\* hashes of one input through the device interface and in software
SpecHash == InitHash /\ [][NextHash]_vars

InitVerify == BridgeInit /\ WMIdle /\ FNIdle /\ VFInit

NextVerify ==
    \/ VfStart
    \/ VfTry
    \/ VfExhausted

\* the verifier on one image
SpecVerify == InitVerify /\ [][NextVerify]_vars

=============================================================================
